---- MODULE Spec2Model ----
(***************************************************************************)
(* State-machine model of the client of the pinch-to-zoom summarizer:      *)
(* StateManager (AppState), the App module's level-change pipeline         *)
(* (handleLevelChange / transitionToLevel), the Animator's run state and   *)
(* the GestureManager (buttons, keyboard, slider, wheel, pinch) with its   *)
(* timers.  Handlers are written as operators from a "world" record (all   *)
(* the program state) to the world after the handler ran, so that a        *)
(* handler that calls another is one atomic step, as on the JS event loop. *)
(* Time is in milliseconds.                                                *)
(***************************************************************************)
EXTENDS Integers, Sequences, FiniteSets, TLC

\* ---- bounds of the model ----
MaxTasks == 2        \* handleLevelChange runs that may be in flight at once (Spec)
GestureTasks == 1    \* the same, in the specification of the gesture layer
TickMs == 50         \* largest amount of time one Tick step lets pass
MaxPos == 3          \* pointer coordinates are 0..MaxPos (on one axis)
MaxPointers == 2     \* pointers that may be down on the container at once
MaxScaleNum == 250   \* scales handed to scaleToLevel are 0..MaxScaleNum hundredths
MaxWords == 3        \* a text handed to the diff analysis splits into at most MaxWords pieces
MaxPriority == 2     \* word priorities are 0..MaxPriority, in place of the scores in [0,1]
RateDen == 4         \* compression rates are 0/RateDen .. RateDen/RateDen
MaxPosition == 5     \* a word's position handed to calculateWordPriority is 0..MaxPosition
MaxSentence == 3     \* sentences hold at most MaxSentence words
MaxSentenceWords == 2  \* words in a sentence of a structured text
MaxSentences == 2    \* sentences in a paragraph
MaxParagraphs == 2   \* paragraphs in a text
MaxIndices == 3      \* indices handed to filterAndSampleWords
MaxIndex == 3        \* they are 0..MaxIndex
MaxElements == 3     \* word elements in the container
MaxRequestWords == 2  \* pieces of a text in a diff request
MaxFingers == 3      \* pointers that may be down at once when the pinch is examined on its own
MaxListed == 2       \* words in the kept list, and in the added list, handed to transformDiffData
MaxRetries == 4      \* withRetry is called with maxRetries 0..MaxRetries
MaxDetailed == 2     \* words of a structured text handed to analyzeDetailedDifference

\* ---- program constants ----
MaxLevel == 3
ButtonCooldown == 300
SliderDebounce == 150
WheelDebounce == 100
PinchDebounce == 100
\* GestureConfig.pinch, in hundredths
MinScale == 50
MaxScale == 200
Threshold == 15
viewportMargin == 200
innerHeight == 400   \* window.innerHeight
WordHeight == 20     \* rect.height of a word element
DefaultMaxRetries == 3     \* withRetry: maxRetries = 3
DefaultBaseDelay == 1000   \* withRetry: baseDelay = 1000

Levels == 0..MaxLevel
NoLevel == 0 - 1
NoTimer == 0
Kinds == {"cooldown", "slider", "wheel", "pinch"}

Min(a, b) == IF a <= b THEN a ELSE b
Max(a, b) == IF a >= b THEN a ELSE b

VARIABLES
    device,          \* "desktop" | "touch"  (Utils.isTouchDevice at init)
    AppState,        \* StateManager: currentLevel, texts, isAnimating, and listeners:
                     \* whether App's three callbacks are registered
    AnimationState,  \* Animator: isRunning, currentTimeline, gsapTimeline
    GestureState,    \* GestureManager: pinch fields, pointers, buttonCooldown, and
                     \* handlers: whether its DOM event handlers are registered
    timeout,         \* the `timeout` closure variable of each debounce()
    timers,          \* pending setTimeout callbacks
    displayed,       \* level whose text displayText last rendered
    levelUI,         \* level that updateLevelUI last wrote to the indicator and the slider
    tasks,           \* in-flight handleLevelChange runs and where each awaits
    summaries,       \* TRUE while generateSummaries' request is pending
    note,            \* what the handlers of the last step did (history)
    trig,            \* argument of the latest setTimeout of each kind (history)
    clock,           \* time since the last level-changing click / pinch move (history)
    call,            \* arguments of the latest call of a function examined on its own
    ret              \* what that call returned

vars == <<device, AppState, AnimationState, GestureState, timeout, timers,
          displayed, levelUI, tasks, summaries, note, trig, clock, call, ret>>

\* no function has been called on its own
NoCall == [fn |-> "none"]

FreeTask == [pc |-> "free", from |-> 0, to |-> 0, valid |-> FALSE]
\* note: src is the input handler that ran in the step ("none" for a completion or
\* a tick), req the level it asked changeLevelWithAnimation for, busy whether
\* isAnimating was set at that call, fired whether a levelChange event went out,
\* cleared whether a clearTimeout of the step cancelled a timer that was pending,
\* rendered whether displayText replaced the container's content in the step,
\* events the isAnimating values of the animationStateChange events of the step,
\* changes its levelChange events, returned what its setLevel call returned.
NoNote == [src |-> "none", req |-> NoLevel, busy |-> FALSE, fired |-> FALSE,
           cleared |-> FALSE, overflow |-> FALSE, rendered |-> FALSE, events |-> <<>>,
           changes |-> <<>>, returned |-> "none"]
\* what a timer callback closes over: the slider value or pinch level, or the wheel event
Arg(level, ctrl, up) == [level |-> level, ctrl |-> ctrl, up |-> up]
NoArg == Arg(NoLevel, FALSE, FALSE)

\* The whole program state as one record, handed through the handlers.
World == [app |-> AppState, anim |-> AnimationState, gs |-> GestureState,
          timeout |-> timeout, timers |-> timers, shown |-> displayed, ui |-> levelUI,
          tasks |-> tasks, note |-> NoNote, trig |-> trig]

\* ---------------------------------------------------------------------
\* StateManager
\* ---------------------------------------------------------------------
getLevel(w) == w.app.currentLevel

\* getText returns texts.get(level) || null: an empty string counts as missing.
getText(w, level) ==
    IF level \in DOMAIN w.app.texts /\ w.app.texts[level] = "text" THEN "text" ELSE "null"

displayText(w, level) == [w EXCEPT !.shown = level, !.note.rendered = TRUE]

\* App's textChange listener
handleTextChange(w, level) ==
    IF level = getLevel(w) THEN displayText(w, level) ELSE w

\* text is "text" (non-empty string), "empty" (the empty string) or "none"
\* (not a string: setText refuses it).
setText(w, level, text) ==
    IF text = "none" THEN w
    ELSE LET w1 == [w EXCEPT !.app.texts[level] = text]
         IN IF w1.app.listeners THEN handleTextChange(w1, level) ELSE w1

\* A setAnimating that notifies at every call: the fault that C34 excludes.
setAnimatingAlwaysNotifying(w, animating) ==
    [w EXCEPT !.app.isAnimating = animating, !.note.events = Append(@, animating)]

\* The listener of animationStateChange only toggles a CSS class.
setAnimating(w, animating) ==
    IF w.app.isAnimating # animating
    THEN [w EXCEPT !.app.isAnimating = animating, !.note.events = Append(@, animating)]
    ELSE w

\* ---------------------------------------------------------------------
\* App: the level-change pipeline
\* ---------------------------------------------------------------------
InFlight(ts) == {t \in DOMAIN ts : ts[t].pc # "free"}

\* transitionToLevel up to its first await (the diff request).  The server
\* answers 400 when fromText or toText is missing, so the request can only
\* succeed when both texts were there when it was sent.
transitionToLevel(w, t, fromLevel, toLevel) ==
    [w EXCEPT !.tasks[t] =
        [pc |-> "fetchDiff", from |-> fromLevel, to |-> toLevel,
         valid |-> getText(w, fromLevel) # "null" /\ getText(w, toLevel) # "null"]]

\* A handleLevelChange that asks the server whatever is stored: the fault
\* that C26 excludes.
handleLevelChangeAlwaysFetching(w, oldLevel, newLevel) ==
    IF InFlight(w.tasks) = DOMAIN w.tasks
    THEN [w EXCEPT !.note.overflow = TRUE]
    ELSE LET t == CHOOSE u \in DOMAIN w.tasks : w.tasks[u].pc = "free"
         IN [w EXCEPT !.tasks[t] = [pc |-> "fetchText", from |-> oldLevel,
                                    to |-> newLevel, valid |-> FALSE]]

\* handleLevelChange up to its first await.
handleLevelChange(w, oldLevel, newLevel) ==
    IF InFlight(w.tasks) = DOMAIN w.tasks
    THEN [w EXCEPT !.note.overflow = TRUE]
    ELSE LET t == CHOOSE u \in DOMAIN w.tasks :
                    /\ w.tasks[u].pc = "free"
                    /\ \A v \in DOMAIN w.tasks : v < u => w.tasks[v].pc # "free"
         IN IF getText(w, newLevel) # "null"
            THEN transitionToLevel(w, t, oldLevel, newLevel)
            ELSE [w EXCEPT !.tasks[t] = [pc |-> "fetchText", from |-> oldLevel,
                                         to |-> newLevel, valid |-> FALSE]]

\* A setLevel without its range check: the fault that C11 excludes.
setLevelUnchecked(w, level) ==
    IF w.app.currentLevel = level THEN w
    ELSE handleLevelChange(
            [w EXCEPT !.app.currentLevel = level, !.note.fired = TRUE],
            w.app.currentLevel, level)

\* parseInt of a number: a number with a fraction, n + 1/2, is written Half + n
\* (an integer outside every range the handlers deal with); an integer and NaN
\* are what they are.
Half == 100
parseInt(x) == IF x >= Half THEN x - Half ELSE x

\* the levelChange event of setLevel
LevelChange(oldLevel, newLevel) == [oldLevel |-> oldLevel, newLevel |-> newLevel]

\* A setLevel that notifies also when the level stays: the fault that C35 excludes.
setLevelAlwaysNotifying(w, level) ==
    LET newLevel == parseInt(level)
    IN IF newLevel \notin Levels THEN [w EXCEPT !.note.returned = "false"]
       ELSE LET oldLevel == w.app.currentLevel
                w1 == [w EXCEPT !.app.currentLevel = newLevel, !.note.fired = TRUE,
                                !.note.changes = Append(@, LevelChange(oldLevel, newLevel)),
                                !.note.returned = "true"]
            IN IF w1.app.listeners
               THEN handleLevelChange(w1, oldLevel, newLevel)
               ELSE w1

\* note.fired: notifyListeners('levelChange') was called; handleLevelChange is
\* the listener App registers for it.
setLevel(w, level) ==
    LET newLevel == parseInt(level)
    IN IF newLevel \notin Levels THEN [w EXCEPT !.note.returned = "false"]
       ELSE IF w.app.currentLevel = newLevel THEN [w EXCEPT !.note.returned = "false"]
       ELSE LET oldLevel == w.app.currentLevel
                w1 == [w EXCEPT !.app.currentLevel = newLevel, !.note.fired = TRUE,
                                !.note.changes = Append(@, LevelChange(oldLevel, newLevel)),
                                !.note.returned = "true"]
            IN IF w1.app.listeners
               THEN handleLevelChange(w1, oldLevel, newLevel)
               ELSE w1

\* The catch block of transitionToLevel: swap the text in without animation.
fallback(w, t) ==
    LET w1 == IF getText(w, w.tasks[t].to) # "null"
              THEN displayText(w, w.tasks[t].to) ELSE w
    IN [w1 EXCEPT !.tasks[t] = FreeTask]

onAnimationComplete(w) ==
    setAnimating([w EXCEPT !.anim = [isRunning |-> FALSE, gsapTimeline |-> 0]], FALSE)

\* Phase 1 and 2 of transitionToLevel: render the target text, then
\* executeTimeline.  outcome "throws": a GSAP/DOM call inside the promise
\* executor throws, which rejects the promise after the flags were set.
startAnimation(w, t, outcome) ==
    LET w1 == displayText(w, w.tasks[t].to)
        w2 == setAnimating([w1 EXCEPT !.anim.isRunning = TRUE], TRUE)
    IN IF outcome = "throws"
       THEN fallback(w2, t)
       ELSE [w2 EXCEPT !.anim.gsapTimeline = t, !.tasks[t].pc = "anim"]

\* GSAP's kill() of the timeline a stopAnimation finds: a timeline still
\* playing never calls onComplete, so the transitionToLevel run awaiting it never
\* resumes (its slot is given back); one whose onComplete already ran is past it.
kill(w, t) ==
    IF t \in DOMAIN w.tasks /\ w.tasks[t].pc = "anim"
    THEN [w EXCEPT !.tasks[t] = FreeTask]
    ELSE w

\* A stopAnimation that leaves StateManager's flag alone: the fault that C14 excludes.
stopAnimationKeepingFlag(w) ==
    LET w1 == [w EXCEPT !.note.src = "stop", !.note.busy = w.app.isAnimating]
    IN IF ~w1.anim.isRunning THEN w1
       ELSE [kill(w1, w1.anim.gsapTimeline)
                EXCEPT !.anim = [isRunning |-> FALSE, gsapTimeline |-> 0]]

\* Animator.stopAnimation (note.busy: whether isAnimating was set at the call)
stopAnimation(w) ==
    LET w1 == [w EXCEPT !.note.src = "stop", !.note.busy = w.app.isAnimating]
    IN IF ~w1.anim.isRunning THEN w1
       ELSE setAnimating([kill(w1, w1.anim.gsapTimeline)
                             EXCEPT !.anim = [isRunning |-> FALSE, gsapTimeline |-> 0]],
                         FALSE)

\* ---------------------------------------------------------------------
\* Timers (window.setTimeout / clearTimeout) and Utils.debounce
\* ---------------------------------------------------------------------
Pending(w, kind) == {x \in w.timers : x.kind = kind}

\* Timer ids are per kind; an id is handed out again only after its timer
\* has fired or was cleared.
NewTimerId(w, kind) ==
    CHOOSE i \in 1..(Cardinality(Pending(w, kind)) + 1) :
        /\ \A x \in Pending(w, kind) : x.id # i
        /\ \A j \in 1..(i - 1) : \E x \in Pending(w, kind) : x.id = j

setTimeout(w, kind, wait, arg) ==
    [w EXCEPT !.timers = @ \cup {[kind |-> kind, id |-> NewTimerId(w, kind),
                                  left |-> wait, arg |-> arg]},
              !.trig[kind] = arg]

clearTimeout(w, kind, id) ==
    [w EXCEPT !.timers = {x \in @ : ~(x.kind = kind /\ x.id = id)},
              !.note.cleared = @ \/ \E x \in w.timers : x.kind = kind /\ x.id = id]

\* A debounce that forgets to cancel its pending timer: the fault that the
\* one-timer rule of C10 excludes.
debounceKeepingTimer(w, kind, wait, arg) ==
    [setTimeout(w, kind, wait, arg) EXCEPT !.timeout[kind] = NewTimerId(w, kind)]

\* executedFunction of Utils.debounce: clearTimeout(timeout); timeout = setTimeout(later, wait)
debounce(w, kind, wait, arg) ==
    LET w1 == clearTimeout(w, kind, w.timeout[kind])
    IN [setTimeout(w1, kind, wait, arg) EXCEPT !.timeout[kind] = NewTimerId(w1, kind)]

\* `later` of Utils.debounce, before it calls func(...args)
later(w, kind) == clearTimeout(w, kind, w.timeout[kind])

\* ---------------------------------------------------------------------
\* GestureManager
\* ---------------------------------------------------------------------
\* changeLevelWithAnimation without its isAnimating gate: the fault that C4 excludes.
changeLevelUngated(w, newLevel) ==
    LET w1 == [w EXCEPT !.note.req = newLevel, !.note.busy = w.app.isAnimating]
    IN IF newLevel = getLevel(w1) THEN w1 ELSE setLevel(w1, newLevel)

\* Utils.updateLevelUI: the level number, its label and the slider's value
updateLevelUI(w, level) == [w EXCEPT !.ui = level]

changeLevelWithAnimation(w, newLevel) ==
    LET w1 == [w EXCEPT !.note.req = newLevel, !.note.busy = w.app.isAnimating]
    IN IF w1.app.isAnimating THEN w1
       ELSE IF newLevel = getLevel(w1) THEN w1
       ELSE updateLevelUI(setLevel(w1, newLevel), newLevel)

\* marks which input handler is running
entered(w, src) == [w EXCEPT !.note.src = src]

\* A cooldown that is never armed: the fault that C7 excludes.
noButtonCooldown(w) == w

setButtonCooldown(w) ==
    setTimeout([w EXCEPT !.gs.buttonCooldown = TRUE], "cooldown", ButtonCooldown, NoArg)

\* A step that arms the cooldown only when the level did change: the fault that
\* C33 excludes.
stepLevelArmingOnChange(w, newLevel, cooldown) ==
    IF newLevel # getLevel(w)
    THEN LET w1 == changeLevelWithAnimation(w, newLevel)
         IN IF cooldown /\ w1.note.fired THEN setButtonCooldown(w1) ELSE w1
    ELSE w

\* a saturating step request: the body shared by the button, key and wheel handlers
stepLevel(w, newLevel, cooldown) ==
    IF newLevel # getLevel(w)
    THEN LET w1 == changeLevelWithAnimation(w, newLevel)
         IN IF cooldown THEN setButtonCooldown(w1) ELSE w1
    ELSE w

handleLevelUp(w) ==
    IF w.gs.buttonCooldown THEN entered(w, "button")
    ELSE stepLevel(entered(w, "button"), Min(MaxLevel, getLevel(w) + 1), TRUE)

handleLevelDown(w) ==
    IF w.gs.buttonCooldown THEN entered(w, "button")
    ELSE stepLevel(entered(w, "button"), Max(0, getLevel(w) - 1), TRUE)

\* handleKeyDown: key is "plus" or "minus" (with Ctrl/Cmd) or "digit" (the key 0..3)
handleKeyDown(w, key, digit) ==
    LET w1 == entered(w, "key")
    IN IF key = "plus" THEN stepLevel(w1, Max(0, getLevel(w) - 1), FALSE)
       ELSE IF key = "minus" THEN stepLevel(w1, Min(MaxLevel, getLevel(w) + 1), FALSE)
       ELSE stepLevel(w1, digit, FALSE)

\* the function debounced in initSliderGesture
handleSliderChange(w, ev) == stepLevel(entered(w, "slider"), ev.level, FALSE)

\* the function debounced in initWheelGesture; ev = [ctrl, up]
handleWheel(w, ev) ==
    LET w1 == entered(w, "wheel")
    IN IF ev.ctrl
       THEN IF ev.up THEN stepLevel(w1, Max(0, getLevel(w) - 1), FALSE)
            ELSE stepLevel(w1, Min(MaxLevel, getLevel(w) + 1), FALSE)
       ELSE w1

\* calculateDistance, for pointers on one axis
calculateDistance(p1, p2) == IF p2.x >= p1.x THEN p2.x - p1.x ELSE p1.x - p2.x

\* A scale is the fraction num/den of two distances; den = 0 gives Infinity
\* (num > 0) or NaN (num = 0).  rawLevel = 3 - 3 * normalized is the fraction
\* RawNum/RawDen.
ClampedNum(scale) == Max(MinScale * scale.den, Min(MaxScale * scale.den, 100 * scale.num))
RawNum(scale) ==
    IF scale.den = 0 THEN 0
    ELSE MaxLevel * (MaxScale - MinScale) * scale.den
            - MaxLevel * (ClampedNum(scale) - MinScale * scale.den)
RawDen(scale) == IF scale.den = 0 THEN 1 ELSE (MaxScale - MinScale) * scale.den
Abs(i) == IF i >= 0 THEN i ELSE 0 - i

\* A scaleToLevel that cuts the fraction off and knows no threshold: the fault
\* that C12 excludes.
scaleToLevelTruncating(w, scale) ==
    IF scale.den = 0 /\ scale.num = 0 THEN getLevel(w)
    ELSE RawNum(scale) \div RawDen(scale)

\* A scaleToLevel that does not clamp the scale: the fault that C13 excludes.
scaleToLevelUnclamped(w, scale) ==
    IF scale.den = 0 THEN getLevel(w)
    ELSE LET num == MaxLevel * (MaxScale - MinScale) * scale.den
                      - MaxLevel * (100 * scale.num - MinScale * scale.den)
         IN (2 * num + RawDen(scale)) \div (2 * RawDen(scale))

scaleToLevel(w, scale) ==
    IF scale.den = 0 /\ scale.num = 0 THEN getLevel(w)          \* NaN compares false
    ELSE IF 100 * Abs(RawNum(scale) - getLevel(w) * RawDen(scale)) >= Threshold * RawDen(scale)
         THEN (2 * RawNum(scale) + RawDen(scale)) \div (2 * RawDen(scale))   \* Math.round
         ELSE getLevel(w)

startPinch(w) ==
    IF Len(w.gs.pointers) # 2 THEN w
    ELSE [w EXCEPT !.gs.isPinching = TRUE,
                   !.gs.initialDistance = calculateDistance(w.gs.pointers[1], w.gs.pointers[2]),
                   !.gs.currentScale = [num |-> 1, den |-> 1],
                   !.gs.lastLevel = getLevel(w)]

\* the callback updatePinch hands to setTimeout
pinchCallback(w, ev) ==
    [changeLevelWithAnimation(entered(w, "pinch"), ev.level) EXCEPT !.gs.lastLevel = ev.level]

updatePinch(w) ==
    IF ~w.gs.isPinching \/ Len(w.gs.pointers) # 2 THEN w
    ELSE LET scale == [num |-> calculateDistance(w.gs.pointers[1], w.gs.pointers[2]),
                       den |-> w.gs.initialDistance]
             w1 == [w EXCEPT !.gs.currentScale = scale]
             newLevel == scaleToLevel(w1, scale)
         IN IF newLevel # w1.gs.lastLevel
            THEN LET w2 == IF w1.gs.pinchDebounceTimer # NoTimer
                           THEN clearTimeout(w1, "pinch", w1.gs.pinchDebounceTimer)
                           ELSE w1
                 IN [setTimeout(w2, "pinch", PinchDebounce, Arg(newLevel, FALSE, FALSE))
                        EXCEPT !.gs.pinchDebounceTimer = NewTimerId(w2, "pinch")]
            ELSE w1

\* An endPinch that leaves the debounce timer pending: the fault that C9 excludes.
endPinchKeepingTimer(w) ==
    [w EXCEPT !.gs.isPinching = FALSE, !.gs.initialDistance = 0,
              !.gs.currentScale = [num |-> 1, den |-> 1], !.gs.pointers = <<>>]

endPinch(w) ==
    LET w1 == IF w.gs.pinchDebounceTimer # NoTimer
              THEN [clearTimeout(w, "pinch", w.gs.pinchDebounceTimer)
                        EXCEPT !.gs.pinchDebounceTimer = NoTimer]
              ELSE w
    IN [w1 EXCEPT !.gs.isPinching = FALSE, !.gs.initialDistance = 0,
                  !.gs.currentScale = [num |-> 1, den |-> 1], !.gs.pointers = <<>>]

Index(ps, id) == CHOOSE i \in 1..Len(ps) : ps[i].id = id
Ids(ps) == {ps[i].id : i \in 1..Len(ps)}
\* Map.set: a new key goes last, an existing key keeps its place
MapSet(ps, id, x) ==
    IF id \in Ids(ps) THEN [ps EXCEPT ![Index(ps, id)] = [id |-> id, x |-> x]]
    ELSE Append(ps, [id |-> id, x |-> x])
MapDelete(ps, id) == SelectSeq(ps, LAMBDA p : p.id # id)

handlePointerDown(w, id, x) ==
    LET w1 == [entered(w, "pointerdown") EXCEPT !.gs.pointers = MapSet(@, id, x)]
    IN IF Len(w1.gs.pointers) = 2 THEN startPinch(w1) ELSE w1

handlePointerMove(w, id, x) ==
    IF id \in Ids(w.gs.pointers)
    THEN LET w1 == [entered(w, "pointermove") EXCEPT !.gs.pointers = MapSet(@, id, x)]
         IN IF w1.gs.isPinching /\ Len(w1.gs.pointers) = 2 THEN updatePinch(w1) ELSE w1
    ELSE entered(w, "pointermove")

\* handlePointerUp and handlePointerCancel have the same body
handlePointerUp(w, id) ==
    LET w1 == [entered(w, "pointerup") EXCEPT !.gs.pointers = MapDelete(@, id)]
    IN IF w1.gs.isPinching /\ Len(w1.gs.pointers) < 2 THEN endPinch(w1) ELSE w1

\* ---------------------------------------------------------------------
\* Steps
\* ---------------------------------------------------------------------
Commit(w, c) ==
    /\ ~w.note.overflow
    /\ AppState' = w.app
    /\ AnimationState' = w.anim
    /\ GestureState' = w.gs
    /\ timeout' = w.timeout
    /\ timers' = w.timers
    /\ displayed' = w.shown
    /\ levelUI' = w.ui
    /\ tasks' = w.tasks
    /\ note' = w.note
    /\ trig' = w.trig
    /\ clock' = c
    /\ UNCHANGED <<device, call, ret>>

\* The state once init() has loaded and rendered the original text: with the
\* background summary request still pending, or (loaded) after it has stored
\* the texts of levels 1..3.
InitWith(devices, slots, loaded) ==
    /\ device \in devices
    /\ AppState = [currentLevel |-> 0,
                   texts |-> [l \in Levels |-> IF l = 0 \/ loaded THEN "text" ELSE "absent"],
                   isAnimating |-> FALSE, listeners |-> TRUE]
    /\ AnimationState = [isRunning |-> FALSE, gsapTimeline |-> 0]
    /\ GestureState = [isPinching |-> FALSE, initialDistance |-> 0,
                       currentScale |-> [num |-> 1, den |-> 1], lastLevel |-> 0,
                       pointers |-> <<>>, buttonCooldown |-> FALSE,
                       pinchDebounceTimer |-> NoTimer, handlers |-> TRUE]
    /\ timeout = [k \in {"slider", "wheel"} |-> NoTimer]
    /\ timers = {}
    /\ displayed = 0
    /\ levelUI = 0
    /\ tasks = [t \in 1..slots |-> FreeTask]
    /\ summaries = ~loaded
    /\ note = NoNote
    /\ trig = [k \in Kinds |-> NoArg]
    /\ clock = [click |-> ButtonCooldown, move |-> PinchDebounce]
    /\ call = NoCall
    /\ ret = NoCall

\* ---- the asynchronous completions of the pipeline ----
\* generateSummaries: the /summarize response arrives (once) and stores what it holds
SummaryTexts == {"none", "text"}
SummariesLoaded ==
    /\ summaries
    /\ summaries' = FALSE
    /\ \E r \in [1..MaxLevel -> SummaryTexts] :
          Commit(setText(setText(setText(World, 1, r[1]), 2, r[2]), 3, r[3]), clock)

\* the same response, when a summary may also be the empty string
StoredTexts == {"none", "empty", "text"}
SummariesLoadedAny ==
    /\ summaries
    /\ summaries' = FALSE
    /\ \E r \in [1..MaxLevel -> StoredTexts] :
          Commit(setText(setText(setText(World, 1, r[1]), 2, r[2]), 3, r[3]), clock)

SummariesFailed ==
    /\ summaries
    /\ summaries' = FALSE
    /\ Commit(World, clock)

TextFetchOk ==
    \E t \in InFlight(tasks) :
        /\ tasks[t].pc = "fetchText"
        /\ LET w1 == setText(World, tasks[t].to, "text")
           IN Commit(transitionToLevel(w1, t, tasks[t].from, tasks[t].to), clock)
        /\ UNCHANGED summaries

\* A failure handler that asks for the text again: the fault that C25 excludes.
TextFetchFailRetrying ==
    \E t \in InFlight(tasks), u \in DOMAIN tasks \ InFlight(tasks) :
        /\ tasks[t].pc = "fetchText"
        /\ Commit([World EXCEPT !.tasks[t] = FreeTask, !.tasks[u] = tasks[t]], clock)
        /\ UNCHANGED summaries

\* the text request fails or its response holds no text: showError, and the
\* handleLevelChange run returns
TextFetchFail ==
    \E t \in InFlight(tasks) :
        /\ tasks[t].pc = "fetchText"
        /\ Commit([World EXCEPT !.tasks[t] = FreeTask], clock)
        /\ UNCHANGED summaries

\* A transition that renders the target text as the fade starts: the fault
\* that C27 excludes.
DiffOkSwappingFirst ==
    \E t \in InFlight(tasks), removed \in BOOLEAN, outcome \in {"ok", "throws"} :
        /\ tasks[t].pc = "fetchDiff"
        /\ tasks[t].valid
        /\ IF removed
           THEN /\ outcome = "ok"
                /\ Commit([displayText(World, tasks[t].to) EXCEPT !.tasks[t].pc = "fade"],
                          clock)
           ELSE Commit(startAnimation(World, t, outcome), clock)
        /\ UNCHANGED summaries

\* the diff response arrives; removed: whether the re-projected diff has removed words
DiffOk ==
    \E t \in InFlight(tasks), removed \in BOOLEAN, outcome \in {"ok", "throws"} :
        /\ tasks[t].pc = "fetchDiff"
        /\ tasks[t].valid
        /\ IF removed
           THEN /\ outcome = "ok"
                /\ Commit([World EXCEPT !.tasks[t].pc = "fade"], clock)
           ELSE Commit(startAnimation(World, t, outcome), clock)
        /\ UNCHANGED summaries

DiffFail ==
    \E t \in InFlight(tasks) :
        /\ tasks[t].pc = "fetchDiff"
        /\ Commit(fallback(World, t), clock)
        /\ UNCHANGED summaries

\* the whole-container fade (Phase 0) ends
FadeDone ==
    \E t \in InFlight(tasks), outcome \in {"ok", "throws"} :
        /\ tasks[t].pc = "fade"
        /\ Commit(startAnimation(World, t, outcome), clock)
        /\ UNCHANGED summaries

\* the GSAP timeline's onComplete: schedules the animation frame
TimelineComplete ==
    \E t \in InFlight(tasks) :
        /\ tasks[t].pc = "anim"
        /\ Commit([World EXCEPT !.tasks[t].pc = "raf"], clock)
        /\ UNCHANGED summaries

\* the animation frame: onAnimationComplete, resolve, and the rest of transitionToLevel
AnimationFrame ==
    \E t \in InFlight(tasks) :
        /\ tasks[t].pc = "raf"
        /\ Commit([onAnimationComplete(World) EXCEPT !.tasks[t] = FreeTask], clock)
        /\ UNCHANGED summaries

\* ---- desktop input ----
\* An input event reaches its handler while GestureManager's handlers are registered.
Clicked(w) == IF w.note.fired THEN [clock EXCEPT !.click = 0] ELSE clock

ClickUp ==
    /\ GestureState.handlers
    /\ device = "desktop"
    /\ LET w == handleLevelUp(World) IN Commit(w, Clicked(w))
    /\ UNCHANGED summaries

ClickDown ==
    /\ GestureState.handlers
    /\ device = "desktop"
    /\ LET w == handleLevelDown(World) IN Commit(w, Clicked(w))
    /\ UNCHANGED summaries

KeyDown ==
    /\ GestureState.handlers
    /\ device = "desktop"
    /\ \E key \in {"plus", "minus", "digit"}, digit \in Levels :
          /\ key # "digit" => digit = 0
          /\ Commit(handleKeyDown(World, key, digit), clock)
    /\ UNCHANGED summaries

SliderChange ==
    /\ GestureState.handlers
    /\ \E value \in Levels :
          Commit(debounce(World, "slider", SliderDebounce, Arg(value, FALSE, FALSE)), clock)
    /\ UNCHANGED summaries

\* A change event of the slider whose value parseInt turns into anything: a
\* level, an integer above 3, or NaN.  NaN is written as an integer of its own:
\* like any integer outside 0..3 it differs from every level under === and is
\* not in [0, 1, 2, 3], which is all the handlers ask of it.
NaN == 0 - 2
SliderValues == {NaN} \cup 0..(MaxLevel + 1)
SliderChangeRaw ==
    /\ GestureState.handlers
    /\ \E value \in SliderValues :
          Commit(debounce(World, "slider", SliderDebounce, Arg(value, FALSE, FALSE)), clock)
    /\ UNCHANGED summaries

Wheel ==
    /\ GestureState.handlers
    /\ device = "desktop"
    /\ \E ctrl \in BOOLEAN, up \in BOOLEAN :
          Commit(debounce(World, "wheel", WheelDebounce, Arg(NoLevel, ctrl, up)), clock)
    /\ UNCHANGED summaries

\* ---- timers firing and time passing ----
Due(kind) == {x \in timers : x.kind = kind /\ x.left = 0}
Fired(x) == [World EXCEPT !.timers = @ \ {x}]

CooldownFire ==
    /\ \E x \in Due("cooldown") :
          Commit([Fired(x) EXCEPT !.gs.buttonCooldown = FALSE], clock)
    /\ UNCHANGED summaries

SliderFire ==
    /\ \E x \in Due("slider") :
          Commit(handleSliderChange(later(Fired(x), "slider"), x.arg), clock)
    /\ UNCHANGED summaries

WheelFire ==
    /\ \E x \in Due("wheel") :
          Commit(handleWheel(later(Fired(x), "wheel"), x.arg), clock)
    /\ UNCHANGED summaries

PinchFire ==
    /\ \E x \in Due("pinch") : Commit(pinchCallback(Fired(x), x.arg), clock)
    /\ UNCHANGED summaries

\* ---- touch input ----
Positions == 0..MaxPos
Moved == IF GestureState.isPinching /\ Len(GestureState.pointers) = 2
         THEN [clock EXCEPT !.move = 0] ELSE clock

\* a pointer goes down while fewer than n are: it gets the lowest id not in use
PointerDownAmong(n) ==
    /\ GestureState.handlers
    /\ device = "touch"
    /\ Len(GestureState.pointers) < n
    /\ \E id \in 1..n, x \in Positions :
          /\ id \notin Ids(GestureState.pointers)
          /\ \A j \in 1..(id - 1) : j \in Ids(GestureState.pointers)
          /\ Commit(handlePointerDown(World, id, x), clock)
    /\ UNCHANGED summaries

PointerDown == PointerDownAmong(MaxPointers)

PointerMove ==
    /\ GestureState.handlers
    /\ device = "touch"
    /\ \E id \in Ids(GestureState.pointers), x \in Positions :
          Commit(handlePointerMove(World, id, x), Moved)
    /\ UNCHANGED summaries

PointerUp ==
    /\ GestureState.handlers
    /\ device = "touch"
    /\ \E id \in Ids(GestureState.pointers) : Commit(handlePointerUp(World, id), clock)
    /\ UNCHANGED summaries

\* Time passes: by at most TickMs and never past the deadline of a pending timer.
Tick ==
    /\ \A x \in timers : x.left > 0
    /\ timers # {} \/ clock.click < ButtonCooldown \/ clock.move < PinchDebounce
    /\ LET lefts == {x.left : x \in timers} \cup {TickMs}
           d == CHOOSE m \in lefts : \A k \in lefts : m <= k
       IN /\ timers' = {[x EXCEPT !.left = @ - d] : x \in timers}
          /\ clock' = [click |-> Min(ButtonCooldown, clock.click + d),
                       move |-> Min(PinchDebounce, clock.move + d)]
    /\ note' = NoNote
    /\ UNCHANGED <<device, AppState, AnimationState, GestureState, timeout, displayed, levelUI,
                   tasks, summaries, trig, call, ret>>

\* The level-change pipeline under keyboard input, with up to MaxTasks
\* handleLevelChange runs in flight.
Init == InitWith({"desktop"}, MaxTasks, FALSE)
Next ==
    \/ SummariesLoaded \/ SummariesFailed
    \/ TextFetchOk \/ TextFetchFail \/ DiffOk \/ DiffFail \/ FadeDone
    \/ TimelineComplete \/ AnimationFrame
    \/ KeyDown
Spec == Init /\ [][Next]_vars

\* The +/- buttons and their cooldown over the same pipeline, with the clock.
NextButtons ==
    \/ SummariesLoaded \/ SummariesFailed
    \/ TextFetchOk \/ TextFetchFail \/ DiffOk \/ DiffFail \/ FadeDone
    \/ TimelineComplete \/ AnimationFrame
    \/ ClickUp \/ ClickDown \/ CooldownFire \/ Tick
SpecButtons == Init /\ [][NextButtons]_vars

\* The debounced inputs with their timers and the clock, once the texts of all
\* levels are stored: keyboard, slider and wheel on a desktop device, the pinch
\* on a touch device (whose slider is left alone).
InitGestures == InitWith({"desktop", "touch"}, GestureTasks, TRUE)
NextGestures ==
    \/ DiffOk \/ DiffFail \/ FadeDone \/ TimelineComplete \/ AnimationFrame
    \/ KeyDown \/ Wheel
    \/ (device = "desktop" /\ SliderChange)
    \/ PointerDown \/ PointerMove \/ PointerUp
    \/ SliderFire \/ WheelFire \/ PinchFire
    \/ Tick
SpecGestures == InitGestures /\ [][NextGestures]_vars

\* The desktop inputs that ask for a level at once or after a debounce (buttons,
\* keys, and a slider that may report anything), once the texts of all levels
\* are stored.  The wheel, which asks as the +/- keys do, is in SpecGestures.
InitLevels == InitWith({"desktop"}, GestureTasks, TRUE)
NextLevels ==
    \/ DiffOk \/ DiffFail \/ FadeDone \/ TimelineComplete \/ AnimationFrame
    \/ ClickUp \/ ClickDown \/ KeyDown
    \/ SliderChangeRaw
    \/ CooldownFire \/ SliderFire
    \/ Tick
SpecLevels == InitLevels /\ [][NextLevels]_vars

\* The pipeline under keyboard input, one run at a time, when the summary
\* response may store nothing, an empty string or a text for a level.
InitTexts == InitWith({"desktop"}, GestureTasks, FALSE)
NextTexts ==
    \/ SummariesLoadedAny \/ SummariesFailed
    \/ TextFetchOk \/ TextFetchFail \/ DiffOk \/ DiffFail \/ FadeDone
    \/ TimelineComplete \/ AnimationFrame
    \/ KeyDown
SpecTexts == InitTexts /\ [][NextTexts]_vars

\* The pointer events of a touch device with up to MaxFingers pointers on the
\* container, within the debounce time of the pinch (no timer comes due).
InitPinch == InitWith({"touch"}, GestureTasks, TRUE)
NextPinch == PointerDownAmong(MaxFingers) \/ PointerMove \/ PointerUp
SpecPinch == InitPinch /\ [][NextPinch]_vars

\* ---- stopAnimation ----
\* a call of the exported Animator.stopAnimation
StopAnimation ==
    /\ Commit(stopAnimation(World), clock)
    /\ UNCHANGED summaries

\* The pipeline under keyboard input, with every text stored and up to MaxTasks
\* runs in flight, and stopAnimation called at any moment.
InitStop == InitWith({"desktop"}, MaxTasks, TRUE)
NextStop ==
    \/ DiffOk \/ DiffFail \/ FadeDone \/ TimelineComplete \/ AnimationFrame
    \/ KeyDown
    \/ StopAnimation
SpecStop == InitStop /\ [][NextStop]_vars

\* The same, where every response, fade, timeline and animation frame that is
\* awaited does arrive; key presses and stopAnimation calls may or may not come.
SpecStopFair ==
    /\ SpecStop
    /\ WF_vars(DiffOk \/ DiffFail)
    /\ WF_vars(FadeDone)
    /\ WF_vars(TimelineComplete)
    /\ WF_vars(AnimationFrame)

\* ---- the slider and the level indicator ----
\* handleSliderInput: the slider's input event shows its value at once
handleSliderInput(w, value) == updateLevelUI(w, value)

\* The user sets the slider to a level: its input event, then its change event
\* (debounced).
SliderInput ==
    /\ GestureState.handlers
    /\ \E value \in Levels :
          Commit(debounce(handleSliderInput(World, value), "slider", SliderDebounce,
                          Arg(value, FALSE, FALSE)), clock)
    /\ UNCHANGED summaries

\* The slider over the pipeline, one run at a time, once the texts of all levels
\* are stored.
NextSlider ==
    \/ DiffOk \/ DiffFail \/ FadeDone \/ TimelineComplete \/ AnimationFrame
    \/ SliderInput \/ SliderFire
    \/ Tick
SpecSlider == InitLevels /\ [][NextSlider]_vars

\* ---- setLevel on its own ----
\* A call of the exported StateManager.setLevel with a level, 4, NaN, or a number
\* with a fraction (1/2 .. 4 1/2).
SetLevelValues == {NaN} \cup 0..(MaxLevel + 1) \cup {Half + n : n \in 0..(MaxLevel + 1)}
SetLevelCall ==
    /\ \E level \in SetLevelValues :
          Commit(setLevel([World EXCEPT !.note.src = "setLevel", !.note.req = level], level),
                 clock)
    /\ UNCHANGED summaries

\* The pipeline, one run at a time and every text stored, under such calls.
NextSetLevel ==
    \/ DiffOk \/ DiffFail \/ FadeDone \/ TimelineComplete \/ AnimationFrame
    \/ SetLevelCall
SpecSetLevel == InitLevels /\ [][NextSetLevel]_vars

\* ---- cleanup ----
\* StateManager.resetState
resetState(w) ==
    [w EXCEPT !.app.currentLevel = 0,
              !.app.texts = [l \in Levels |-> "absent"],
              !.app.isAnimating = FALSE]

\* GestureManager.cleanup: takes the DOM handlers away and clears the pinch
\* timer; the timers of the debounced slider and wheel and of the cooldown stay.
gestureCleanup(w) ==
    LET w1 == [w EXCEPT !.gs.handlers = FALSE]
    IN IF w1.gs.pinchDebounceTimer # NoTimer
       THEN [clearTimeout(w1, "pinch", w1.gs.pinchDebounceTimer)
                EXCEPT !.gs.pinchDebounceTimer = NoTimer]
       ELSE w1

\* App.cleanup
cleanup(w) ==
    resetState(stopAnimation([gestureCleanup(w) EXCEPT !.app.listeners = FALSE]))

\* a call of App.cleanup (exported, and the handler of beforeunload)
Cleanup ==
    /\ Commit([cleanup(World) EXCEPT !.note.src = "cleanup"], clock)
    /\ UNCHANGED summaries

\* The pipeline under the slider with its debounce timer, one run at a time, with
\* the summary request pending at first, and App.cleanup called at any moment.
InitCleanup == InitWith({"desktop"}, GestureTasks, FALSE)
NextCleanup ==
    \/ SummariesLoaded \/ SummariesFailed
    \/ TextFetchOk \/ TextFetchFail \/ DiffOk \/ DiffFail \/ FadeDone
    \/ TimelineComplete \/ AnimationFrame
    \/ SliderChange \/ SliderFire \/ Tick
    \/ Cleanup
SpecCleanup == InitCleanup /\ [][NextCleanup]_vars

\* ---------------------------------------------------------------------
\* Server: the word difference of two texts
\* ---------------------------------------------------------------------
\* A text is the sequence of pieces that split(/\s+/) cuts it into; a piece is
\* empty where the text begins or ends with whitespace.
Pieces == {"", "a", "A", "b", "c"}
Texts == UNION {[1..n -> Pieces] : n \in 0..MaxWords}

toLowerCase(word) == IF word = "A" THEN "a" ELSE word

Range(seq) == {seq[i] : i \in 1..Len(seq)}

\* the order in which a Set built by adding the elements of seq iterates
RECURSIVE Unique(_)
Unique(seq) ==
    IF seq = <<>> THEN <<>>
    ELSE LET front == Unique(SubSeq(seq, 1, Len(seq) - 1))
             last == seq[Len(seq)]
         IN IF last \in Range(front) THEN front ELSE Append(front, last)

lowerCased(seq) == [i \in 1..Len(seq) |-> toLowerCase(seq[i])]

\* text.split(/\s+/).filter(w => w.trim()).map(w => w.toLowerCase())
tokenize(text) == lowerCased(SelectSeq(text, LAMBDA piece : piece # ""))

findExactMatches(sourceWords, targetWords) ==
    LET sourceSet == Unique(lowerCased(sourceWords))
        targetSet == Unique(lowerCased(targetWords))
    IN SelectSeq(sourceSet, LAMBDA word : word \in Range(targetSet))

\* A difference by occurrence counts, where a word that occurs in both texts
\* is also reported removed or added when its counts differ: the fault that
\* C16 excludes.
analyzeDifferenceByCount(sourceText, targetText) ==
    LET sourceWords == tokenize(sourceText)
        targetWords == tokenize(targetText)
        exactMatchesSet == findExactMatches(sourceWords, targetWords)
        Count(seq, word) == Cardinality({i \in 1..Len(seq) : seq[i] = word})
    IN [kept |-> exactMatchesSet,
        removed |-> Unique(SelectSeq(sourceWords,
                        LAMBDA w : Count(sourceWords, w) > Count(targetWords, w))),
        added |-> Unique(SelectSeq(targetWords,
                        LAMBDA w : Count(targetWords, w) > Count(sourceWords, w))),
        morphed |-> <<>>]

\* A difference that reports every word of the target as added: the fault
\* that C17 excludes.
analyzeDifferenceAddingAll(sourceText, targetText) ==
    LET sourceWords == tokenize(sourceText)
        targetWords == tokenize(targetText)
        exactMatchesSet == findExactMatches(sourceWords, targetWords)
    IN [kept |-> exactMatchesSet,
        removed |-> Unique(SelectSeq(sourceWords, LAMBDA w : w \notin Range(exactMatchesSet))),
        added |-> Unique(targetWords),
        morphed |-> <<>>]

analyzeDifference(sourceText, targetText) ==
    LET sourceWords == tokenize(sourceText)
        targetWords == tokenize(targetText)
        exactMatchesSet == findExactMatches(sourceWords, targetWords)
    IN [kept |-> exactMatchesSet,
        removed |-> Unique(SelectSeq(sourceWords, LAMBDA w : w \notin Range(exactMatchesSet))),
        added |-> Unique(SelectSeq(targetWords, LAMBDA w : w \notin Range(exactMatchesSet))),
        morphed |-> <<>>]

AnalyzeDifferenceCall ==
    /\ call = NoCall
    /\ \E sourceText \in Texts, targetText \in Texts :
          /\ call' = [fn |-> "analyzeDifference", source |-> sourceText, target |-> targetText]
          /\ ret' = analyzeDifference(sourceText, targetText)
    /\ UNCHANGED <<device, AppState, AnimationState, GestureState, timeout, timers,
                   displayed, levelUI, tasks, summaries, note, trig, clock>>

SpecDiff == Init /\ [][AnalyzeDifferenceCall]_vars

\* ---------------------------------------------------------------------
\* App: transformDiffData
\* ---------------------------------------------------------------------
\* Words of the rendered texts and of the diff lists.  The count tables are
\* plain objects ({}), so a word that names a property of Object.prototype
\* reads as that inherited value before it was ever counted.
RenderedWords == {"a", "A", "b", "constructor"}
DiffWords == {"a", "b", "constructor"}
Inherited == {"constructor"}
Count(seq, word) == Cardinality({i \in 1..Len(seq) : seq[i] = word})

\* xWordCounts after the forEach over one list of the diff: a number, or for an
\* inherited key the function with "1" appended (a string), kept here as 0 - 1.
wordCounts(list) ==
    [word \in DiffWords |->
        IF word \in Inherited THEN 0 - 1
        ELSE Count(lowerCased(list), word)]

\* counts[lowerWord] > 0: false for a missing key (undefined), for 0 and for
\* an inherited function or the string made of it (NaN)
Positive(counts, word) == word \in DOMAIN counts /\ counts[word] > 0

\* words.forEach((word, index) => ...) from index i on: the indices pushed.
\* Indices count from 1 here, from 0 in the code.
RECURSIVE matchIndices(_, _, _, _)
matchIndices(words, counts, used, i) ==
    IF i > Len(words) THEN <<>>
    ELSE LET lowerWord == toLowerCase(words[i])
         IN IF Positive(counts, lowerWord) /\ i \notin used
            THEN <<i>> \o matchIndices(words, [counts EXCEPT ![lowerWord] = @ - 1], used, i + 1)
            ELSE matchIndices(words, counts, used, i + 1)

\* diffData = [kept, removed, added] as the server's analyzeDifference sends
\* it (morphed is empty); the texts are their pieces.  Each result list holds
\* the indices of its {word, index} entries.
transformDiffData(diffData, fromText, toText) ==
    LET fromWords == SelectSeq(fromText, LAMBDA piece : piece # "")
        toWords == SelectSeq(toText, LAMBDA piece : piece # "")
        kept == matchIndices(toWords, wordCounts(diffData.kept), {}, 1)
        added == matchIndices(toWords, wordCounts(diffData.added), Range(kept), 1)
        removed == matchIndices(fromWords, wordCounts(diffData.removed), {}, 1)
    IN [kept |-> kept, removed |-> removed, added |-> added, morphed |-> <<>>,
        toWords |-> toWords]

WordLists(n) == UNION {[1..k -> DiffWords] : k \in 0..n}
RenderedTexts(n) == UNION {[1..k -> RenderedWords] : k \in 0..n}

TransformDiffDataCall ==
    /\ call = NoCall
    /\ \E kept \in WordLists(MaxListed), added \in WordLists(MaxListed),
          removed \in WordLists(1), fromText \in RenderedTexts(1),
          toText \in RenderedTexts(MaxWords) :
          /\ call' = [fn |-> "transformDiffData", from |-> fromText, to |-> toText,
                      diffData |-> [kept |-> kept, removed |-> removed, added |-> added]]
          /\ ret' = transformDiffData(call'.diffData, fromText, toText)
    /\ UNCHANGED <<device, AppState, AnimationState, GestureState, timeout, timers,
                   displayed, levelUI, tasks, summaries, note, trig, clock>>

SpecTransform == Init /\ [][TransformDiffDataCall]_vars

\* ---------------------------------------------------------------------
\* priorityCalculator: selectWordsToRemove
\* ---------------------------------------------------------------------
\* A word is [text, priority]; text is the word's place in the list handed
\* in, which tells the words of a list apart.  The rate is num / RateDen:
\* a multiple of 1/4 and its product with a length are exact as doubles,
\* so Math.floor of the product is the integer division.
WordsWith(priorities) ==
    [i \in 1..Len(priorities) |-> [text |-> i, priority |-> priorities[i]]]
WordArrays == {WordsWith(p) : p \in UNION {[1..n -> 0..MaxPriority] : n \in 0..MaxWords}}

\* the order calculatePrioritiesForText leaves its result in
SortedByPriority(words) ==
    \A i, j \in 1..Len(words) : i < j => words[i].priority <= words[j].priority

slice(words, start, end) == SubSeq(words, start + 1, end)

selectWordsToRemoveRoundingDown(words, num) ==
    LET totalWords == Len(words)
        removeCount == (totalWords * (RateDen - num)) \div RateDen
    IN [toKeep |-> slice(words, removeCount, totalWords),
        toRemove |-> slice(words, 0, removeCount)]

selectWordsToRemoveFromEnd(words, num) ==
    LET totalWords == Len(words)
        targetWordCount == (totalWords * num) \div RateDen
    IN [toKeep |-> slice(words, 0, targetWordCount),
        toRemove |-> slice(words, targetWordCount, totalWords)]

selectWordsToRemove(words, num) ==
    LET totalWords == Len(words)
        targetWordCount == (totalWords * num) \div RateDen
        removeCount == totalWords - targetWordCount
    IN [toKeep |-> slice(words, removeCount, totalWords),
        toRemove |-> slice(words, 0, removeCount)]

SelectWordsToRemoveCall ==
    /\ call = NoCall
    /\ \E words \in WordArrays, num \in 0..RateDen :
          /\ call' = [fn |-> "selectWordsToRemove", words |-> words, num |-> num]
          /\ ret' = selectWordsToRemove(words, num)
    /\ UNCHANGED <<device, AppState, AnimationState, GestureState, timeout, timers,
                   displayed, levelUI, tasks, summaries, note, trig, clock>>

SpecSelect == Init /\ [][SelectWordsToRemoveCall]_vars

\* ---------------------------------------------------------------------
\* priorityCalculator: calculateWordPriority
\* ---------------------------------------------------------------------
\* Scores are kept in hundredths (0..100 for 0..1).  A quotient
\* position / sentenceLength is kept as a fraction [num, den].
PosTags == {"NOUN", "VERB", "NUM", "ADJ", "ADV", "ADP", "DET", "CONJ", "X"}
POS_WEIGHTS ==
    [pos \in PosTags \ {"X"} |->
        CASE pos = "NOUN" -> 100 [] pos = "VERB" -> 90 [] pos = "NUM" -> 85
          [] pos = "ADJ" -> 60 [] pos = "ADV" -> 40 [] pos = "ADP" -> 20
          [] pos = "DET" -> 10 [] pos = "CONJ" -> 5]
Missing == 0 - 1
Tfidfs == {Missing, 0, 50, 100}

calculatePOSScore(pos) == IF pos \in DOMAIN POS_WEIGHTS THEN POS_WEIGHTS[pos] ELSE 50

\* sentence is the array's length.  position / 0 is NaN for position 0 (both
\* comparisons false) and Infinity otherwise.
calculateSyntaxScore(word, sentence) ==
    LET below == sentence > 0 /\ 10 * word.position < 3 * sentence
        above == IF sentence = 0 THEN word.position > 0
                 ELSE 2 * word.position > sentence
    IN CASE word.pos = "NOUN" -> (IF below THEN 100 ELSE IF above THEN 80 ELSE 60)
         [] word.pos = "VERB" -> 90
         [] word.pos \in {"ADJ", "ADV"} -> 30
         [] word.pos \in {"ADP", "CONJ"} -> 10
         [] OTHER -> 50

calculateLocationScore(position, sentenceLength) ==
    IF sentenceLength <= 1 THEN [num |-> 1, den |-> 1]
    ELSE [num |-> sentenceLength - position, den |-> sentenceLength]

\* 0.4 * tfidf + 0.3 * pos + 0.2 * syntax + 0.1 * location, over 1000 * den
weightedSum(word, sentenceWords, sentenceLength) ==
    LET tfidfScore == IF word.normalizedTfidf = Missing THEN 0 ELSE word.normalizedTfidf
        posScore == calculatePOSScore(word.pos)
        syntaxScore == calculateSyntaxScore(word, sentenceWords)
        locationScore == calculateLocationScore(word.position, sentenceLength)
    IN [num |-> (4 * tfidfScore + 3 * posScore + 2 * syntaxScore) * locationScore.den
                    + 100 * locationScore.num,
        den |-> 1000 * locationScore.den]

calculateWordPriorityUnclamped(word, sentenceWords, sentenceLength) ==
    weightedSum(word, sentenceWords, sentenceLength)

calculateWordPriority(word, sentenceWords, sentenceLength) ==
    LET priority == weightedSum(word, sentenceWords, sentenceLength)
    IN [num |-> Max(0, Min(priority.den, priority.num)), den |-> priority.den]

CalculateWordPriorityCall ==
    /\ call = NoCall
    /\ \E pos \in PosTags, position \in 0..MaxPosition, tfidf \in Tfidfs,
          sentenceWords \in 0..MaxSentence, sentenceLength \in 0..MaxSentence :
          /\ call' = [fn |-> "calculateWordPriority",
                      word |-> [pos |-> pos, position |-> position, normalizedTfidf |-> tfidf],
                      sentenceWords |-> sentenceWords, sentenceLength |-> sentenceLength]
          /\ ret' = calculateWordPriority(call'.word, sentenceWords, sentenceLength)
    /\ UNCHANGED <<device, AppState, AnimationState, GestureState, timeout, timers,
                   displayed, levelUI, tasks, summaries, note, trig, clock>>

SpecPriority == Init /\ [][CalculateWordPriorityCall]_vars

\* ---------------------------------------------------------------------
\* textProcessor: structureText; priorityCalculator: calculatePrioritiesForText
\* ---------------------------------------------------------------------
\* A text is its paragraphs, a paragraph its sentences, a sentence the words
\* the tokenizer finds in it (none for a sentence of punctuation only).
Vocabulary == {"cat", "the"}
SentenceWords == UNION {[1..n -> Vocabulary] : n \in 0..MaxSentenceWords}
Paragraphs == UNION {[1..n -> SentenceWords] : n \in 1..MaxSentences}
Documents == UNION {[1..n -> Paragraphs] : n \in 0..MaxParagraphs}

\* the vocabulary holds English words only, none ending in ly, ing or ed
estimatePOS(word) ==
    CASE word \in {"and", "or", "but", "yet", "so", "for", "nor"} -> "CONJ"
      [] word \in {"in", "on", "at", "by", "with", "from", "to", "of"} -> "ADP"
      [] word \in {"a", "an", "the", "this", "that", "these", "those"} -> "DET"
      [] OTHER -> "NOUN"

RECURSIVE Flatten(_)
Flatten(seqs) == IF seqs = <<>> THEN <<>> ELSE Head(seqs) \o Flatten(Tail(seqs))

\* sentences in the order the two nested forEach loops visit them
visited(text) ==
    Flatten([p \in 1..Len(text) |->
                [s \in 1..Len(text[p]) |-> [paragraph |-> p - 1, words |-> text[p][s]]]])

\* A counter that starts again in every sentence: the fault that C39 excludes.
wordPositionPerSentence(sentences, i) == 0

\* the value of wordPosition when sentence i (from 1) is entered
RECURSIVE wordPosition(_, _)
wordPosition(sentences, i) ==
    IF i = 1 THEN 0 ELSE wordPosition(sentences, i - 1) + Len(sentences[i - 1].words)

structureText(text) ==
    LET sentences == visited(text)
    IN [sentences |-> [i \in 1..Len(sentences) |->
                          [index |-> i - 1, paragraph |-> sentences[i].paragraph,
                           wordCount |-> Len(sentences[i].words)]],
        words |-> Flatten([i \in 1..Len(sentences) |->
                     [k \in 1..Len(sentences[i].words) |->
                         [text |-> sentences[i].words[k],
                          position |-> wordPosition(sentences, i) + k - 1,
                          sentence |-> i - 1,
                          paragraph |-> sentences[i].paragraph,
                          pos |-> estimatePOS(sentences[i].words[k])]]])]

\* structureText is called on a text, and then once more on the same text
StructureTextCall ==
    /\ call = NoCall
    /\ \E text \in Documents :
          /\ call' = [fn |-> "structureText", text |-> text, calls |-> 1, first |-> NoCall]
          /\ ret' = structureText(text)
    /\ UNCHANGED <<device, AppState, AnimationState, GestureState, timeout, timers,
                   displayed, levelUI, tasks, summaries, note, trig, clock>>

StructureTextAgain ==
    /\ call # NoCall
    /\ call.fn = "structureText"
    /\ call.calls = 1
    /\ call' = [call EXCEPT !.calls = 2, !.first = ret]
    /\ ret' = structureText(call.text)
    /\ UNCHANGED <<device, AppState, AnimationState, GestureState, timeout, timers,
                   displayed, levelUI, tasks, summaries, note, trig, clock>>

NextStructure == StructureTextCall \/ StructureTextAgain
SpecStructure == Init /\ [][NextStructure]_vars

\* priority < 0.3, < 0.6, else
getPriorityGroup(priority) ==
    IF 10 * priority.num < 3 * priority.den THEN "immediate"
    ELSE IF 10 * priority.num < 6 * priority.den THEN "middle"
    ELSE "late"

\* words.sort((a, b) => a.priority - b.priority): stable, ascending
RECURSIVE sortByPriority(_)
sortByPriority(words) ==
    IF words = <<>> THEN <<>>
    ELSE LET front == sortByPriority(SubSeq(words, 1, Len(words) - 1))
             last == words[Len(words)]
             notAfter == {i \in 1..Len(front) :
                             front[i].priority.num * last.priority.den
                                 <= last.priority.num * front[i].priority.den}
             n == IF notAfter = {} THEN 0
                  ELSE CHOOSE i \in notAfter : \A j \in notAfter : j <= i
         IN SubSeq(front, 1, n) \o <<last>> \o SubSeq(front, n + 1, Len(front))

\* wordsBySentence[sentence].length
wordsBySentence(words, sentence) ==
    Cardinality({i \in 1..Len(words) : words[i].sentence = sentence})

\* normalizedTfidfMap is what the TF-IDF module hands back for the text: a
\* score for a word, or nothing for a word it filtered out.
calculatePrioritiesForText(text, normalizedTfidfMap) ==
    LET words == structureText(text).words
        enrichedWords == [i \in 1..Len(words) |->
            [text |-> words[i].text, position |-> words[i].position,
             sentence |-> words[i].sentence, paragraph |-> words[i].paragraph,
             pos |-> words[i].pos,
             normalizedTfidf |-> IF normalizedTfidfMap[words[i].text] = Missing THEN 0
                                 ELSE normalizedTfidfMap[words[i].text]]]
        wordsWithPriority == [i \in 1..Len(enrichedWords) |->
            LET word == enrichedWords[i]
                sentenceLength == wordsBySentence(enrichedWords, word.sentence)
                priority == calculateWordPriority(word, sentenceLength, sentenceLength)
            IN [text |-> word.text, position |-> word.position, sentence |-> word.sentence,
                paragraph |-> word.paragraph, pos |-> word.pos,
                normalizedTfidf |-> word.normalizedTfidf,
                priority |-> priority, priorityGroup |-> getPriorityGroup(priority)]]
    IN sortByPriority(wordsWithPriority)

CalculatePrioritiesForTextCall ==
    /\ call = NoCall
    /\ \E text \in Documents, normalizedTfidfMap \in [Vocabulary -> Tfidfs] :
          /\ call' = [fn |-> "calculatePrioritiesForText", text |-> text,
                      normalizedTfidfMap |-> normalizedTfidfMap]
          /\ ret' = calculatePrioritiesForText(text, normalizedTfidfMap)
    /\ UNCHANGED <<device, AppState, AnimationState, GestureState, timeout, timers,
                   displayed, levelUI, tasks, summaries, note, trig, clock>>

SpecPriorities == Init /\ [][CalculatePrioritiesForTextCall]_vars

\* ---------------------------------------------------------------------
\* Animator: filterAndSampleWords
\* ---------------------------------------------------------------------
\* Lengths are pixels.  A word element is the top of its box in the page
\* (rect.top + window.scrollY); every box is WordHeight high.  Sampling rates
\* are tenths.  Indices count from 0 as in the code.
WordTops == {0, 580, 780, 1500}
ScrollYs == {0, 1000}
SamplingTenths == {0, 5, 7, 10}
IndexLists ==
    {list \in UNION {[1..n -> 0..MaxIndex] : n \in 0..MaxIndices} :
        \A i, j \in 1..Len(list) : list[i] = list[j] => i = j}
WordElements == UNION {[1..n -> WordTops] : n \in 0..MaxElements}

\* the filter of step 1 for one index: the element exists and its box meets
\* the viewport widened by viewportMargin on both sides
inViewport(index, allWords, scrollY) ==
    /\ index + 1 \in DOMAIN allWords
    /\ LET viewportTop == scrollY - viewportMargin
           viewportBottom == scrollY + innerHeight + viewportMargin
           wordTop == allWords[index + 1]
           wordBottom == wordTop + WordHeight
       IN wordBottom >= viewportTop /\ wordTop <= viewportBottom

\* [...list].sort(() => Math.random() - 0.5): some order of the same elements
shuffles(list) ==
    {[i \in 1..Len(list) |-> list[order[i]]] :
        order \in {f \in [1..Len(list) -> 1..Len(list)] :
                      \A i, j \in 1..Len(list) : f[i] = f[j] => i = j}}

\* the results the call can give, one per outcome of the shuffle
filterAndSampleWordsUnfiltered(wordIndices, allWords, scrollY, tenths) ==
    IF tenths < 10
    THEN {slice(shuffled, 0, (Len(wordIndices) * tenths) \div 10) :
             shuffled \in shuffles(wordIndices)}
    ELSE {wordIndices}

filterAndSampleWords(wordIndices, allWords, scrollY, tenths) ==
    LET filteredIndices ==
            SelectSeq(wordIndices, LAMBDA index : inViewport(index, allWords, scrollY))
    IN IF tenths < 10
       THEN LET targetCount == (Len(filteredIndices) * tenths) \div 10
            IN {slice(shuffled, 0, targetCount) : shuffled \in shuffles(filteredIndices)}
       ELSE {filteredIndices}

FilterAndSampleWordsCall ==
    /\ call = NoCall
    /\ \E wordIndices \in IndexLists, allWords \in WordElements,
          scrollY \in ScrollYs, tenths \in SamplingTenths :
          /\ call' = [fn |-> "filterAndSampleWords", wordIndices |-> wordIndices,
                      allWords |-> allWords, scrollY |-> scrollY, tenths |-> tenths]
          /\ ret' \in filterAndSampleWords(wordIndices, allWords, scrollY, tenths)
    /\ UNCHANGED <<device, AppState, AnimationState, GestureState, timeout, timers,
                   displayed, levelUI, tasks, summaries, note, trig, clock>>

SpecSample == Init /\ [][FilterAndSampleWordsCall]_vars

\* ---------------------------------------------------------------------
\* Server: POST /api/calculate-diff
\* ---------------------------------------------------------------------
\* A text is what split(/\s+/) makes of the string: <<"">> is the empty
\* string, <<"", "">> a string of white space.  A field of the body is given
\* or not; the body itself is missing when the request carries no JSON.
EmptyString == <<"">>
RequestTexts == {text \in Texts : Len(text) \in 1..MaxRequestWords}
NotGiven == [given |-> FALSE, text |-> EmptyString]
BodyFields == {NotGiven} \cup {[given |-> TRUE, text |-> text] : text \in RequestTexts}
Bodies ==
    {[present |-> FALSE, fromText |-> NotGiven, toText |-> NotGiven, detailed |-> "none"]}
    \cup [present : {TRUE}, fromText : BodyFields, toText : BodyFields,
          detailed : {"none", "true", "false"}]

\* !field: undefined or the empty string
Falsy(field) == ~field.given \/ field.text = EmptyString

\* the response sent, and in ran the analysis that was run for it
calculateDiffCheckingFrom(body) ==
    IF ~body.present
    THEN [status |-> 500, success |-> FALSE, error |-> "TypeError", ran |-> "none"]
    ELSE IF Falsy(body.fromText)
    THEN [status |-> 400, success |-> FALSE, error |-> "fromText and toText required",
          ran |-> "none"]
    ELSE [status |-> 200, success |-> TRUE, error |-> "",
          ran |-> "analyzeDifference",
          data |-> analyzeDifference(body.fromText.text, body.toText.text)]

calculateDiff(body) ==
    IF ~body.present
    THEN [status |-> 500, success |-> FALSE, error |-> "TypeError", ran |-> "none"]
    ELSE IF Falsy(body.fromText) \/ Falsy(body.toText)
    THEN [status |-> 400, success |-> FALSE, error |-> "fromText and toText required",
          ran |-> "none"]
    ELSE IF body.detailed = "true"
    THEN [status |-> 200, success |-> TRUE, error |-> "",
          ran |-> "analyzeDetailedDifference"]
    ELSE [status |-> 200, success |-> TRUE, error |-> "",
          ran |-> "analyzeDifference",
          data |-> analyzeDifference(body.fromText.text, body.toText.text)]

CalculateDiffRequest ==
    /\ call = NoCall
    /\ \E body \in Bodies :
          /\ call' = [fn |-> "calculateDiff", body |-> body]
          /\ ret' = calculateDiff(body)
    /\ UNCHANGED <<device, AppState, AnimationState, GestureState, timeout, timers,
                   displayed, levelUI, tasks, summaries, note, trig, clock>>

SpecRoute == Init /\ [][CalculateDiffRequest]_vars

\* ---------------------------------------------------------------------
\* Server: withRetry
\* ---------------------------------------------------------------------
\* What an apiCall settles with: a value, or an error that has a status (0: the
\* error carries none) and an identity.
Statuses == {0, 400, 401, 500}
Outcomes ==
    {[ok |-> TRUE, status |-> 0, id |-> "value"]}
    \cup [ok : {FALSE}, status : Statuses, id : {"e1", "e2"}]
\* `let lastError;`
Undefined == [ok |-> FALSE, status |-> 0, id |-> "undefined"]
BaseDelays == {DefaultBaseDelay, 100}

Returned(value) == [fn |-> "withRetry", threw |-> FALSE, value |-> value]
Thrown(error) == [fn |-> "withRetry", threw |-> TRUE, value |-> error]

RECURSIVE Pow2(_)
Pow2(n) == IF n = 0 THEN 1 ELSE 2 * Pow2(n - 1)

\* The run of one withRetry call: attempt is the loop variable, pc where the run
\* awaits ("apiCall", "wait") or "done", results what the apiCalls settled with
\* so far and waits the delays of the setTimeouts so far (history).
withRetry(maxRetries, baseDelay) ==
    [run |-> [fn |-> "withRetry", maxRetries |-> maxRetries, baseDelay |-> baseDelay,
              attempt |-> 1, lastError |-> Undefined,
              pc |-> IF 1 <= maxRetries THEN "apiCall" ELSE "done",
              results |-> <<>>, waits |-> <<>>],
     ret |-> IF 1 <= maxRetries THEN NoCall ELSE Thrown(Undefined)]

\* A catch block that retries whatever the error is: the fault that C36 excludes.
catchErrorRetryingAll(run, error) ==
    LET r1 == [run EXCEPT !.lastError = error]
    IN IF r1.attempt < r1.maxRetries
       THEN [run |-> [r1 EXCEPT !.pc = "wait",
                                !.waits = Append(@, r1.baseDelay * Pow2(r1.attempt - 1))],
             ret |-> NoCall]
       ELSE [run |-> [r1 EXCEPT !.pc = "done"], ret |-> Thrown(r1.lastError)]

\* the catch block, and the end of the loop when this was the last attempt
catchError(run, error) ==
    LET r1 == [run EXCEPT !.lastError = error]
    IN IF error.status = 401 \/ error.status = 400
       THEN [run |-> [r1 EXCEPT !.pc = "done"], ret |-> Thrown(error)]
       ELSE IF r1.attempt < r1.maxRetries
       THEN [run |-> [r1 EXCEPT !.pc = "wait",
                                !.waits = Append(@, r1.baseDelay * Pow2(r1.attempt - 1))],
             ret |-> NoCall]
       ELSE [run |-> [r1 EXCEPT !.pc = "done"], ret |-> Thrown(r1.lastError)]

\* `return await apiCall()` settles
settled(run, outcome) ==
    LET r1 == [run EXCEPT !.results = Append(@, outcome)]
    IN IF outcome.ok
       THEN [run |-> [r1 EXCEPT !.pc = "done"], ret |-> Returned(outcome)]
       ELSE catchError(r1, outcome)

WithRetryCall ==
    /\ call = NoCall
    /\ \E maxRetries \in 0..MaxRetries, baseDelay \in BaseDelays :
          /\ call' = withRetry(maxRetries, baseDelay).run
          /\ ret' = withRetry(maxRetries, baseDelay).ret
    /\ UNCHANGED <<device, AppState, AnimationState, GestureState, timeout, timers,
                   displayed, levelUI, tasks, summaries, note, trig, clock>>

ApiCallSettles ==
    /\ call # NoCall
    /\ call.pc = "apiCall"
    /\ \E outcome \in Outcomes :
          /\ call' = settled(call, outcome).run
          /\ ret' = settled(call, outcome).ret
    /\ UNCHANGED <<device, AppState, AnimationState, GestureState, timeout, timers,
                   displayed, levelUI, tasks, summaries, note, trig, clock>>

\* the setTimeout of the backoff resolves: the next turn of the loop
BackoffElapsed ==
    /\ call # NoCall
    /\ call.pc = "wait"
    /\ call' = [call EXCEPT !.attempt = @ + 1, !.pc = "apiCall"]
    /\ UNCHANGED <<device, AppState, AnimationState, GestureState, timeout, timers,
                   displayed, levelUI, tasks, summaries, note, trig, clock, ret>>

NextRetry == WithRetryCall \/ ApiCallSettles \/ BackoffElapsed
SpecRetry == Init /\ [][NextRetry]_vars

\* ---------------------------------------------------------------------
\* Server: analyzeDetailedDifference
\* ---------------------------------------------------------------------
\* A word's text is the sequence of its characters.
WordTexts ==
    {<<"a", "b">>, <<"a", "b", "c">>, <<"A", "b", "c">>, <<"a", "b", "c", "d">>,
     <<"a", "b", "c", "d", "e">>, <<"x", "y">>}
\* the words of a structured text
StructuredWords == UNION {[1..n -> [text : WordTexts]] : n \in 0..MaxDetailed}

\* a fraction, and its comparisons
Rat(num, den) == [num |-> num, den |-> den]
AtLeast(a, b) == a.num * b.den >= b.num * a.den
Greater(a, b) == a.num * b.den > b.num * a.den

\* natural.LevenshteinDistance with its default costs of 1
RECURSIVE levenshteinDistance(_, _)
levenshteinDistance(str1, str2) ==
    IF str1 = <<>> THEN Len(str2)
    ELSE IF str2 = <<>> THEN Len(str1)
    ELSE Min(Min(levenshteinDistance(Tail(str1), str2) + 1,
                 levenshteinDistance(str1, Tail(str2)) + 1),
             levenshteinDistance(Tail(str1), Tail(str2))
                + (IF Head(str1) = Head(str2) THEN 0 ELSE 1))

calculateLevenshteinSimilarity(word1, word2) ==
    LET distance == levenshteinDistance(word1, word2)
        maxLength == Max(Len(word1), Len(word2))
    IN IF maxLength = 0 THEN Rat(1, 1) ELSE Rat(maxLength - distance, maxLength)

\* String.prototype.includes
includes(w1, w2) ==
    \E i \in 1..(Len(w1) - Len(w2) + 1) : SubSeq(w1, i, i + Len(w2) - 1) = w2

commonPrefix(w1, w2) ==
    Cardinality({k \in 1..Min(Len(w1), Len(w2)) : \A i \in 1..k : w1[i] = w2[i]})

calculateSemanticSimilarity(word1, word2) ==
    LET w1 == lowerCased(word1)
        w2 == lowerCased(word2)
    IN IF w1 = w2 THEN Rat(1, 1)
       ELSE IF includes(w1, w2) \/ includes(w2, w1)
       THEN Rat(Min(Len(w1), Len(w2)), Max(Len(w1), Len(w2)))
       ELSE IF commonPrefix(w1, w2) >= 3
       THEN Rat(commonPrefix(w1, w2), Max(Len(w1), Len(w2)))
       ELSE Rat(0, 1)

\* 0.4 * levenshteinSim + 0.6 * semanticSim
calculateWordSimilarity(word1, word2) ==
    LET l == calculateLevenshteinSimilarity(word1, word2)
        s == calculateSemanticSimilarity(word1, word2)
    IN Rat(4 * l.num * s.den + 6 * s.num * l.den, 10 * l.den * s.den)

\* A search that asks for more than 0.6: the fault that C38 excludes.
RECURSIVE bestMatchAboveThreshold(_, _, _)
bestMatchAboveThreshold(word, targetWords, k) ==
    IF k = 0 THEN [to |-> 0, similarity |-> Rat(0, 1)]
    ELSE LET best == bestMatchAboveThreshold(word, targetWords, k - 1)
             similarity == calculateWordSimilarity(word.text, targetWords[k].text)
         IN IF Greater(similarity, best.similarity) /\ Greater(similarity, Rat(6, 10))
            THEN [to |-> k, similarity |-> similarity]
            ELSE best

\* bestMatch (the place of the target word, 0 for null) and maxSimilarity after
\* the first k target words were looked at
RECURSIVE bestMatch(_, _, _)
bestMatch(word, targetWords, k) ==
    IF k = 0 THEN [to |-> 0, similarity |-> Rat(0, 1)]
    ELSE LET best == bestMatch(word, targetWords, k - 1)
             similarity == calculateWordSimilarity(word.text, targetWords[k].text)
         IN IF Greater(similarity, best.similarity) /\ AtLeast(similarity, Rat(6, 10))
            THEN [to |-> k, similarity |-> similarity]
            ELSE best

\* findExactMatches of the lower-cased texts, as a set
exactMatches(sourceTexts, targetTexts) ==
    {sourceTexts[i] : i \in 1..Len(sourceTexts)}
        \cap {targetTexts[j] : j \in 1..Len(targetTexts)}

\* { ...word, originalIndex: index } for every source word
indexed(sourceWords) ==
    [i \in 1..Len(sourceWords) |->
        [text |-> sourceWords[i].text, originalIndex |-> i - 1]]

analyzeDetailedDifference(sourceWords, targetWords) ==
    LET lowerTexts(words) == [i \in 1..Len(words) |-> lowerCased(words[i].text)]
        exact == exactMatches(lowerTexts(sourceWords), lowerTexts(targetWords))
        found(word) == bestMatch(word, targetWords, Len(targetWords))
        isKept(word) == lowerCased(word.text) \in exact
        isMorphed(word) == ~isKept(word) /\ found(word).to # 0
        kept == SelectSeq(indexed(sourceWords), isKept)
        removed == SelectSeq(indexed(sourceWords),
                             LAMBDA word : ~isKept(word) /\ ~isMorphed(word))
        changed == SelectSeq(indexed(sourceWords), isMorphed)
        morphed == [i \in 1..Len(changed) |->
                       [from |-> changed[i], to |-> targetWords[found(changed[i]).to],
                        similarity |-> found(changed[i]).similarity]]
        keptTexts == {lowerCased(kept[i].text) : i \in 1..Len(kept)}
        morphedTargetTexts == {lowerCased(morphed[i].to.text) : i \in 1..Len(morphed)}
        added == SelectSeq(targetWords,
                           LAMBDA word : /\ lowerCased(word.text) \notin keptTexts
                                         /\ lowerCased(word.text) \notin morphedTargetTexts)
    IN [kept |-> kept, removed |-> removed, added |-> added, morphed |-> morphed]

AnalyzeDetailedDifferenceCall ==
    /\ call = NoCall
    /\ \E sourceWords \in StructuredWords, targetWords \in StructuredWords :
          /\ call' = [fn |-> "analyzeDetailedDifference", source |-> sourceWords,
                      target |-> targetWords]
          /\ ret' = analyzeDetailedDifference(sourceWords, targetWords)
    /\ UNCHANGED <<device, AppState, AnimationState, GestureState, timeout, timers,
                   displayed, levelUI, tasks, summaries, note, trig, clock>>

SpecDetailed == Init /\ [][AnalyzeDetailedDifferenceCall]_vars

\* ---- scaleToLevel on its own ----
\* The page at rest at any level, with every text stored and that level shown.
InitAtLevel ==
    /\ device = "touch"
    /\ \E l \in Levels :
          /\ AppState = [currentLevel |-> l, texts |-> [k \in Levels |-> "text"],
                         isAnimating |-> FALSE, listeners |-> TRUE]
          /\ displayed = l
          /\ levelUI = l
          /\ GestureState = [isPinching |-> FALSE, initialDistance |-> 0,
                             currentScale |-> [num |-> 1, den |-> 1], lastLevel |-> l,
                             pointers |-> <<>>, buttonCooldown |-> FALSE,
                             pinchDebounceTimer |-> NoTimer, handlers |-> TRUE]
    /\ AnimationState = [isRunning |-> FALSE, gsapTimeline |-> 0]
    /\ timeout = [k \in {"slider", "wheel"} |-> NoTimer]
    /\ timers = {}
    /\ tasks = [t \in 1..GestureTasks |-> FreeTask]
    /\ summaries = FALSE
    /\ note = NoNote
    /\ trig = [k \in Kinds |-> NoArg]
    /\ clock = [click |-> ButtonCooldown, move |-> PinchDebounce]
    /\ call = NoCall
    /\ ret = NoCall

\* scaleToLevel(scale) for a scale of num hundredths, or for the quotient
\* num / 0 of a pinch that started with both pointers at one place
\* (Infinity, or NaN when num is 0 too).
ScaleToLevelCall ==
    /\ \E num \in 0..MaxScaleNum, den \in {0, 100} :
          /\ call' = [fn |-> "scaleToLevel", num |-> num, den |-> den]
          /\ ret' = scaleToLevel(World, [num |-> num, den |-> den])
    /\ UNCHANGED <<device, AppState, AnimationState, GestureState, timeout, timers,
                   displayed, levelUI, tasks, summaries, note, trig, clock>>

SpecScale == InitAtLevel /\ [][ScaleToLevelCall]_vars

\* ---------------------------------------------------------------------
\* Properties
\* ---------------------------------------------------------------------
Busy(t) == tasks[t].pc # "free"
Alone(t) == InFlight(tasks) = {t}

\* C1: at most one transition (a handleLevelChange/transitionToLevel run) is
\* in flight at any time; an input that arrives while one is fetching the
\* text or the diff, or animating, starts no second one.
C1_OneTransitionInFlight == Cardinality(InFlight(tasks)) <= 1

\* C2: when the text fetch of a transition fails (and no other transition is
\* in flight), the transition ends without an animation and the current level
\* is the level that was current before the request.
C2_FailedFetchKeepsLevel ==
    [][\A t \in DOMAIN tasks :
          (Alone(t) /\ tasks[t].pc = "fetchText" /\ tasks'[t].pc = "free")
              => /\ AppState'.currentLevel = tasks[t].from
                 /\ ~AppState'.isAnimating]_vars

\* C3: when the diff request or the animation of a transition fails (and no
\* other transition is in flight), the target text is displayed and
\* isAnimating is false afterwards.
C3_FailureFallsBack ==
    [][\A t \in DOMAIN tasks :
          (Alone(t) /\ tasks[t].pc \in {"fetchDiff", "fade"} /\ tasks'[t].pc = "free")
              => /\ displayed' = tasks[t].to
                 /\ ~AppState'.isAnimating]_vars

\* C5: while the only transition in flight awaits its text, its diff or its
\* animation, StateManager still reports the level it started from.
C5_LevelCommittedAtCompletion ==
    \A t \in DOMAIN tasks : (Alone(t) /\ Busy(t)) => AppState.currentLevel = tasks[t].from

\* C6: with no transition in flight, the level whose text is displayed is
\* StateManager's current level.
C6_DisplayedIsCurrent ==
    InFlight(tasks) = {} => displayed = AppState.currentLevel

PinchTimers(ts) == {x \in ts : x.kind = "pinch"}

\* C4: a changeLevelWithAnimation call made while isAnimating is true leaves
\* the current level alone, fires no levelChange event, starts no transition
\* and leaves no timer behind that could replay it; and the step in which
\* isAnimating falls changes no level either.
C4_BusyRequestDropped ==
    [][/\ (note'.req # NoLevel /\ note'.busy)
            => /\ AppState'.currentLevel = AppState.currentLevel
               /\ ~note'.fired
               /\ tasks' = tasks
               /\ \A x \in timers' \ timers : x.kind = "cooldown"
       /\ (AppState.isAnimating /\ ~AppState'.isAnimating)
            => /\ AppState'.currentLevel = AppState.currentLevel
               /\ ~note'.fired
               /\ timers' = timers]_vars

\* a request for another level arrived while a timeline was animating
C4_RequestWhileAnimating ==
    /\ note.req # NoLevel
    /\ note.busy
    /\ note.req # AppState.currentLevel
    /\ \E t \in DOMAIN tasks : tasks[t].pc = "anim"

\* C7: a +/- click less than 300 ms after a click that changed the level
\* changes nothing.
C7_SecondClickIgnored ==
    [][(note'.src = "button" /\ clock.click < ButtonCooldown)
          => /\ AppState'.currentLevel = AppState.currentLevel
             /\ ~note'.fired
             /\ tasks' = tasks]_vars

\* a click was handled less than 300 ms (but some time) after a click that changed the level
C7_ClickDuringCooldown ==
    /\ note.src = "button"
    /\ ~note.fired
    /\ clock.click > 0
    /\ clock.click < ButtonCooldown

\* C8: the pinch callback (the commit of a pinch-driven level change) runs
\* only when no pinch move with two pointers happened in the 100 ms before it.
C8_CommitAfterQuietTime ==
    [][note'.src = "pinch" => clock.move >= PinchDebounce]_vars

\* C9: once a pointer-up (or cancel) has left fewer than two pointers during a
\* pinch, isPinching is false, initialDistance and currentScale are reset and
\* no pinch timer is pending; and none is pending while no pinch is going on.
C9_PinchEndResets ==
    /\ [](~GestureState.isPinching => PinchTimers(timers) = {})
    /\ [][(GestureState.isPinching /\ note'.src = "pointerup"
              /\ Len(GestureState'.pointers) < 2)
            => /\ ~GestureState'.isPinching
               /\ GestureState'.initialDistance = 0
               /\ GestureState'.currentScale = [num |-> 1, den |-> 1]
               /\ PinchTimers(timers') = {}]_vars

\* a pointer-up has ended a pinch and cancelled the level change it had scheduled
C9_PinchEndedWithPendingChange ==
    /\ note.src = "pointerup"
    /\ note.cleared
    /\ ~GestureState.isPinching
    /\ trig["pinch"].level # GestureState.lastLevel

DebouncedKinds == {"slider", "wheel", "pinch"}

\* C10: of each debounced input at most one timer is pending, it carries the
\* arguments of the latest trigger, and once its action has run none is pending.
C10_OneTimerLatestArgs ==
    /\ [](\A k \in DebouncedKinds :
            /\ Cardinality({x \in timers : x.kind = k}) <= 1
            /\ \A x \in timers : x.kind = k => x.arg = trig[k])
    /\ [][\A k \in DebouncedKinds :
            note'.src = k => {x \in timers' : x.kind = k} = {}]_vars

\* a slider change arrived while the timer of an earlier one was pending (the
\* wheel timer runs on untouched): the earlier timer is gone, the new one armed
C10_BurstReplacedTimer ==
    /\ note.cleared
    /\ note.src = "none"
    /\ \E x \in timers : x.kind = "slider" /\ x.left = SliderDebounce /\ x.arg = trig["slider"]
    /\ \E y \in timers : y.kind = "wheel" /\ y.left < WheelDebounce

ClampedCall == Max(50, Min(200, call.num))

\* C12: scaleToLevel returns the current level whenever the continuous level
\* 3 * (1 - normalized), which is (200 - clamped) / 50 for a clamped scale in
\* hundredths, is less than 0.15 away from the current level.
C12_BelowThresholdKeepsLevel ==
    (call.fn = "scaleToLevel" /\ call.den = 100
        /\ 2 * Abs(200 - ClampedCall - 50 * AppState.currentLevel) < 15)
      => ret = AppState.currentLevel

\* a scale whose continuous level is off the current level, by less than 0.15
C12_CloseButOff ==
    /\ call.fn = "scaleToLevel"
    /\ call.den = 100
    /\ 200 - ClampedCall # 50 * AppState.currentLevel
    /\ 2 * Abs(200 - ClampedCall - 50 * AppState.currentLevel) < 15
    /\ ret = AppState.currentLevel

\* C13: scaleToLevel returns 0 for every scale >= 2.0 (Infinity included) and
\* 3 for every scale <= 0.5, whatever the current level, and always one of 0..3.
C13_ScaleEndsAndRange ==
    call.fn = "scaleToLevel"
      => /\ ret \in Levels
         /\ (call.den = 100 /\ call.num >= 200) => ret = 0
         /\ (call.den = 0 /\ call.num > 0) => ret = 0
         /\ (call.den = 100 /\ call.num <= 50) => ret = MaxLevel

\* a scale above 2.0 at level 3 gave level 0
C13_FarEndReached ==
    /\ call.fn = "scaleToLevel"
    /\ call.den = 100
    /\ call.num > 200
    /\ AppState.currentLevel = MaxLevel
    /\ ret = 0

\* C14: a stopAnimation call that finds an animation running leaves isRunning
\* and isAnimating false and the timeline reference cleared; one that finds
\* none running changes nothing.
C14_StopClearsFlags ==
    [][note'.src = "stop"
          => IF AnimationState.isRunning
             THEN /\ ~AnimationState'.isRunning
                  /\ ~AppState'.isAnimating
                  /\ AnimationState'.gsapTimeline = 0
             ELSE /\ AppState' = AppState
                  /\ AnimationState' = AnimationState
                  /\ tasks' = tasks
                  /\ displayed' = displayed
                  /\ timers' = timers]_vars

\* stopAnimation was called while isAnimating was set, and cleared it
C14_StoppedWhileAnimating ==
    /\ note.src = "stop"
    /\ note.busy
    /\ ~AppState.isAnimating
    /\ ~AnimationState.isRunning

\* C15: when an animation completes (the animation frame after the timeline's
\* onComplete, where the awaiting transition resumes), isAnimating falls from
\* true to false in that step: one animationStateChange event, and the flag
\* is clear when transitionToLevel goes on.
C15_CompletionClearsFlagOnce ==
    [][\A t \in DOMAIN tasks :
          (tasks[t].pc = "raf" /\ tasks'[t].pc = "free")
              => (AppState.isAnimating /\ ~AppState'.isAnimating)]_vars

NoDuplicates(seq) == \A i, j \in 1..Len(seq) : seq[i] = seq[j] => i = j
\* the lowercase tokens of a text, read off the text itself
LowerWords(text) == {toLowerCase(text[i]) : i \in {k \in 1..Len(text) : text[k] # ""}}

C17_DifferenceSymmetric ==
    call.fn = "analyzeDifference"
      => LET back == analyzeDifference(call.target, call.source)
         IN /\ Range(ret.kept) = Range(back.kept)
            /\ Range(ret.removed) = Range(back.added)
            /\ Range(ret.added) = Range(back.removed)

\* two texts that share a word and each have one of their own
C17_BothSidesDiffer ==
    /\ call.fn = "analyzeDifference"
    /\ ret.kept # <<>>
    /\ ret.removed # <<>>
    /\ ret.added # <<>>

\* target indices among those assigned (a list of indices) that hold the word
Holding(indices, word) == {i \in Range(indices) : toLowerCase(ret.toWords[i]) = word}

\* C18: whenever the target text holds each word at least as often as the
\* diff lists it under kept and added together, the number of target indices
\* assigned to kept (to added) for a word is the number of times the kept
\* (added) list names it, and no index is assigned twice.
C18_ExactMultiplicity ==
    (/\ call.fn = "transformDiffData"
     /\ \A word \in DiffWords :
           Count(call.diffData.kept, word) + Count(call.diffData.added, word)
              <= Count(lowerCased(ret.toWords), word))
      => /\ \A word \in DiffWords :
              /\ Cardinality(Holding(ret.kept, word)) = Count(call.diffData.kept, word)
              /\ Cardinality(Holding(ret.added, word)) = Count(call.diffData.added, word)
         /\ NoDuplicates(ret.kept)
         /\ NoDuplicates(ret.added)
         /\ Range(ret.kept) \cap Range(ret.added) = {}

Selected == call.fn = "selectWordsToRemove"

LowestRemoved ==
    \A i \in 1..Len(ret.toRemove), j \in 1..Len(ret.toKeep) :
        ret.toRemove[i].priority <= ret.toKeep[j].priority

\* C20 as stated: whatever the order of the list handed in, every word of
\* toRemove has a priority at most that of every word of toKeep.
C20_LowestRemovedAnyOrder == Selected => LowestRemoved

\* C20, amended: the list is cut where it stands, not sorted; when it comes
\* sorted by ascending priority, as calculatePrioritiesForText returns it,
\* every word of toRemove has a priority at most that of every word of toKeep.
C20_LowestRemovedWhenSorted ==
    (Selected /\ SortedByPriority(call.words)) => LowestRemoved

\* a sorted list of different priorities cut into two non-empty parts
C20_SortedListCut ==
    /\ Selected
    /\ SortedByPriority(call.words)
    /\ ret.toRemove # <<>>
    /\ ret.toKeep # <<>>
    /\ ret.toRemove[1].priority < ret.toKeep[Len(ret.toKeep)].priority

\* C21: calculateWordPriority returns a value between 0 and 1 for every POS
\* tag, known or not, every normalizedTfidf in [0,1] or none, and every
\* position and sentence length, the position past the sentence's end included.
C21_PriorityInUnitInterval ==
    call.fn = "calculateWordPriority" => (0 <= ret.num /\ ret.num <= ret.den)

\* a word placed past the end of its sentence, whose weighted sum is negative
C21_PastSentenceEnd ==
    /\ call.fn = "calculateWordPriority"
    /\ call.sentenceLength > 1
    /\ call.word.position > call.sentenceLength
    /\ weightedSum(call.word, call.sentenceWords, call.sentenceLength).num < 0
    /\ ret.num = 0

\* the place of a returned word within its own sentence, from 0
indexInSentence(word) ==
    Cardinality({i \in 1..Len(ret) :
                    ret[i].sentence = word.sentence /\ ret[i].position < word.position})

\* the location score calculateWordPriority computed for a returned word
locationScoreUsed(word) ==
    calculateLocationScore(word.position, wordsBySentence(ret, word.sentence))

\* C22: for every word of a text processed by calculatePrioritiesForText the
\* location score used is 1 - p/L, with p the word's place within its own
\* sentence (from 0) and L the sentence's length; it is greater than 0 and at
\* most 1, and the first word of every sentence scores 1.
C22_LocationScoreWithinSentence ==
    call.fn = "calculatePrioritiesForText" =>
        \A i \in 1..Len(ret) :
            LET score == locationScoreUsed(ret[i])
                L == wordsBySentence(ret, ret[i].sentence)
            IN /\ score.num * L = (L - indexInSentence(ret[i])) * score.den
               /\ 0 < score.num
               /\ score.num <= score.den
               /\ indexInSentence(ret[i]) = 0 => score.num = score.den

\* the input indices whose word element meets the widened viewport
Visible ==
    {index \in Range(call.wordIndices) : inViewport(index, call.allWords, call.scrollY)}

\* C23: with a sampling rate r below 1 filterAndSampleWords returns at most
\* floor(r * v) indices, v being the number of input indices whose element
\* meets the viewport widened by 200px; every returned index is one of
\* those, and none is returned twice.
C23_SampleWithinVisible ==
    (call.fn = "filterAndSampleWords" /\ call.tenths < 10) =>
        /\ Len(ret) <= (Cardinality(Visible) * call.tenths) \div 10
        /\ Range(ret) \subseteq Visible
        /\ NoDuplicates(ret)

\* two visible indices and one out of sight, sampled at 70%
C23_SampledSomeVisible ==
    /\ call.fn = "filterAndSampleWords"
    /\ call.tenths = 7
    /\ Cardinality(Visible) = 2
    /\ Range(call.wordIndices) \ Visible # {}
    /\ Len(ret) = 1

\* C24: a diff request whose fromText or toText is missing or empty gets an
\* error response with a message, and no analysis is run for it.
C24_IncompleteRequestRejected ==
    (/\ call.fn = "calculateDiff"
     /\ \/ ~call.body.present
        \/ Falsy(call.body.fromText)
        \/ Falsy(call.body.toText))
      => /\ ~ret.success
         /\ ret.status >= 400
         /\ ret.error # ""
         /\ ret.ran = "none"

\* a request with a source text and an empty target text
C24_EmptyTargetText ==
    /\ call.fn = "calculateDiff"
    /\ call.body.present
    /\ ~Falsy(call.body.fromText)
    /\ call.body.toText = [given |-> TRUE, text |-> EmptyString]
    /\ ret.status = 400

\* the runs that send their text request in the step
Fetching(ts) == {t \in DOMAIN ts : ts[t].pc = "fetchText"}

C26_FetchOnlyWhenNothingStored ==
    [][\A t \in Fetching(tasks') \ Fetching(tasks) :
          AppState.texts[tasks'[t].to] = "absent"]_vars

\* C26, amended: a text request is sent for a level only when getText gives
\* null for it, which it does when nothing or an empty string is stored; a
\* transition to a level whose stored text is not empty sends none.
C26_FetchOnlyWhenGetTextNull ==
    [][\A t \in Fetching(tasks') \ Fetching(tasks) :
          getText(World, tasks'[t].to) = "null"]_vars

\* a text request in flight for a level whose stored text is the empty string
C26_FetchForEmptyText ==
    \E t \in Fetching(tasks) : AppState.texts[tasks[t].to] = "empty"

\* the places a transitionToLevel run can go to next from where it awaits
After(pc) ==
    CASE pc = "free" -> {"fetchText", "fetchDiff"}
      [] pc = "fetchText" -> {"fetchDiff", "free"}
      [] pc = "fetchDiff" -> {"fade", "anim", "free"}
      [] pc = "fade" -> {"anim", "free"}
      [] pc = "anim" -> {"raf"}
      [] pc = "raf" -> {"free"}

\* C27: a transitionToLevel run goes from the diff response to the fade (if
\* the diff has removed words), to the rendering of the target text, to the
\* animation, to the statistics, in this order: the run does not swap the
\* text when its fade starts, it swaps it when the fade has ended and the
\* animation starts, and it ends after its animation frame.
C27_StepsInOrder ==
    [][\A t \in DOMAIN tasks :
          /\ tasks'[t].pc # tasks[t].pc => tasks'[t].pc \in After(tasks[t].pc)
          /\ (tasks[t].pc = "fetchDiff" /\ tasks'[t].pc = "fade") => displayed' = displayed
          /\ (tasks[t].pc # "anim" /\ tasks'[t].pc = "anim")
                => /\ displayed' = tasks[t].to
                   /\ AppState'.isAnimating]_vars

\* a run whose fade is playing over the text of the level it leaves
C27_FadingOldText ==
    \E t \in DOMAIN tasks :
        /\ Alone(t)
        /\ tasks[t].pc = "fade"
        /\ displayed = tasks[t].from
        /\ displayed # tasks[t].to

\* where a run is between its diff request and the end of its animation
Window == {"fetchDiff", "fade", "anim", "raf"}

\* C28: while the only run in flight is between its diff request and the end
\* of its animation, a step that is not a step of that run (a textChange
\* event, such as the summary load storing the text of the current level)
\* does not replace the rendered text.
C28_NoRenderDuringTransition ==
    [][\A t \in DOMAIN tasks :
          (Alone(t) /\ tasks[t].pc \in Window /\ tasks' = tasks) => ~note'.rendered]_vars

\* Pointers get the lowest id not in use and endPinch empties the map, so
\* every pinch starts when pointer 2 goes down next to pointer 1.
StartPair == {1, 2}

\* C29: whenever a pointer move computes the pinch scale (isPinching, two
\* pointers in the map), those two are the pointers whose distance was taken
\* as initialDistance when the pinch started.
C29_ScaleFromStartPair ==
    [][(/\ note'.src = "pointermove"
        /\ GestureState'.isPinching
        /\ Len(GestureState'.pointers) = 2)
          => Ids(GestureState'.pointers) = StartPair]_vars

\* C30: every transitionToLevel run that reaches executeTimeline gets to the
\* animation frame that settles its promise (after which it updates the
\* statistics and ends), also when stopAnimation is called meanwhile.
C30_AnimatingRunFinishes ==
    \A t \in 1..MaxTasks : (tasks[t].pc = "anim") ~> (tasks[t].pc = "raf")

\* C31: once App.cleanup has run (its listeners are gone), every later step leaves
\* the current level at 0, the text store empty, isAnimating false and the
\* rendered text as it was.
C31_NothingAfterCleanup ==
    [][~AppState.listeners
         => /\ AppState'.currentLevel = 0
            /\ \A l \in Levels : AppState'.texts[l] = "absent"
            /\ ~AppState'.isAnimating
            /\ displayed' = displayed]_vars

\* no debounce timer is armed and no transition is in flight
NoInputPending ==
    /\ \A x \in timers : x.kind = "cooldown"
    /\ InFlight(tasks) = {}

\* C32: whenever no input is pending, the level indicator and the slider show
\* the current level.
C32_IndicatorShowsLevel == NoInputPending => levelUI = AppState.currentLevel

\* the step arms the 300 ms cooldown / leaves the cooldown and the timers alone
Armed ==
    /\ GestureState'.buttonCooldown
    /\ \E x \in timers' : x \notin timers /\ x.kind = "cooldown" /\ x.left = ButtonCooldown
NothingArmed ==
    /\ timers' = timers
    /\ GestureState'.buttonCooldown = GestureState.buttonCooldown

\* C33: a click on + or - arms the cooldown when no cooldown is active and the
\* clamped target differs from the current level (also when the level change is
\* dropped because an animation runs); a click at the bound or during a cooldown
\* arms nothing.
C33_CooldownArmedByClick ==
    [][/\ ClickUp => IF ~GestureState.buttonCooldown /\ AppState.currentLevel < MaxLevel
                     THEN Armed ELSE NothingArmed
       /\ ClickDown => IF ~GestureState.buttonCooldown /\ AppState.currentLevel > 0
                       THEN Armed ELSE NothingArmed]_vars

\* a click whose level change was dropped during an animation has armed the cooldown
C33_DroppedClickArmed ==
    /\ note.src = "button"
    /\ note.busy
    /\ ~note.fired
    /\ GestureState.buttonCooldown
    /\ \E x \in timers : x.kind = "cooldown" /\ x.left = ButtonCooldown

\* what ends a withRetry run at once: a value, or an error with status 401 or 400
Final(outcome) == outcome.ok \/ outcome.status = 401 \/ outcome.status = 400

\* C36: a successful apiCall is the last one and its value is returned; an error
\* with status 401 or 400 is the last one too, thrown with no wait after it; and
\* when all maxRetries attempts failed the error of the last one is thrown.
C36_RetryOutcome ==
    call # NoCall =>
        /\ \A i \in 1..Len(call.results) :
              Final(call.results[i])
                => /\ i = Len(call.results)
                   /\ Len(call.waits) = i - 1
                   /\ ret = IF call.results[i].ok THEN Returned(call.results[i])
                                                  ELSE Thrown(call.results[i])
        /\ (ret # NoCall /\ call.results # <<>>
                /\ ~Final(call.results[Len(call.results)]))
              => /\ Len(call.results) = call.maxRetries
                 /\ ret = Thrown(call.results[Len(call.results)])
        /\ Len(call.results) <= call.maxRetries

\* three attempts failed with two different errors and the last one was thrown
C36_LastErrorThrown ==
    /\ call # NoCall
    /\ Len(call.results) = 3
    /\ call.results[1].id = "e1"
    /\ call.results[3].id = "e2"
    /\ ret = Thrown(call.results[3])

\* C37: with the defaults, a run whose every attempt failed with a retryable
\* error has waited 1 s, 2 s and 4 s by the time it throws.
C37_ThreeBackoffWaits ==
    (/\ call # NoCall
     /\ call.maxRetries = DefaultMaxRetries
     /\ call.baseDelay = DefaultBaseDelay
     /\ ret # NoCall
     /\ ret.threw
     /\ \A i \in 1..Len(call.results) : ~Final(call.results[i]))
      => call.waits = <<1000, 2000, 4000>>

\* C34: the animationStateChange events of a step alternate, the first one
\* carries the opposite of the flag before the step and the last one the flag
\* after it, and a step without an event leaves the flag alone.  The flag starts
\* false, so over a whole behaviour the events alternate, starting with
\* isAnimating = true.
C34_EventsAlternate ==
    [][LET ev == note'.events
       IN /\ \A i \in 1..(Len(ev) - 1) : ev[i + 1] # ev[i]
          /\ ev # <<>> => /\ ev[1] = ~AppState.isAnimating
                          /\ ev[Len(ev)] = AppState'.isAnimating
          /\ ev = <<>> => AppState'.isAnimating = AppState.isAnimating]_vars

\* a second executeTimeline has started while the first still runs, without an event
C34_SecondStartSilent ==
    /\ \A t \in DOMAIN tasks : tasks[t].pc = "anim"
    /\ note.src = "none"
    /\ note.rendered
    /\ note.events = <<>>
    /\ AppState.isAnimating

\* what setLevel does when it refuses, and when it accepts the level `level`
Refused ==
    /\ note'.returned = "false"
    /\ note'.changes = <<>>
    /\ UNCHANGED <<AppState, AnimationState, GestureState, timers, displayed, levelUI, tasks>>
Accepted(level) ==
    /\ note'.returned = "true"
    /\ note'.changes = <<LevelChange(AppState.currentLevel, AppState'.currentLevel)>>
    /\ AppState'.currentLevel = level
    /\ AppState'.currentLevel # AppState.currentLevel

\* C35 as stated: setLevel refuses a value that is not one of 0..3 or is the
\* current level, and otherwise fires one levelChange event from the previous to
\* the new current level.
C35_SetLevelFrame ==
    [][note'.src = "setLevel"
         => IF note'.req \notin Levels \/ note'.req = AppState.currentLevel
            THEN Refused ELSE Accepted(note'.req)]_vars

\* C35, amended: the same of the value's integer part, parseInt(value).
C35_SetLevelFrameOfParsed ==
    [][note'.src = "setLevel"
         => IF parseInt(note'.req) \notin Levels
                 \/ parseInt(note'.req) = AppState.currentLevel
            THEN Refused ELSE Accepted(parseInt(note'.req))]_vars

\* setLevel(1.5) has set level 1
C35_FractionAccepted ==
    /\ note.src = "setLevel"
    /\ note.req = Half + 1
    /\ note.returned = "true"
    /\ AppState.currentLevel = 1

\* how many entries of a result list are the source word at place i
Listed(list, i) == Cardinality({k \in 1..Len(list) : list[k].originalIndex = i - 1})
ListedFrom(list, i) ==
    Cardinality({k \in 1..Len(list) : list[k].from.originalIndex = i - 1})

\* C38: every source word occurrence is in exactly one of kept (its lower-case
\* text occurs in the target), morphed (not kept, and its similarity with some
\* target word is at least 0.6) and removed (neither); and a target word is in
\* added exactly when its lower-case text is neither the text of a kept word nor
\* the text of a morph target.
C38_EveryWordClassified ==
    (call # NoCall /\ call.fn = "analyzeDetailedDifference") =>
        /\ \A i \in 1..Len(call.source) :
              LET text == call.source[i].text
                  inTarget == \E j \in 1..Len(call.target) :
                                 lowerCased(call.target[j].text) = lowerCased(text)
                  similar == \E j \in 1..Len(call.target) :
                                 AtLeast(calculateWordSimilarity(text, call.target[j].text),
                                         Rat(6, 10))
              IN /\ Listed(ret.kept, i) = (IF inTarget THEN 1 ELSE 0)
                 /\ ListedFrom(ret.morphed, i) = (IF ~inTarget /\ similar THEN 1 ELSE 0)
                 /\ Listed(ret.removed, i) = (IF ~inTarget /\ ~similar THEN 1 ELSE 0)
        /\ Len(ret.kept) + Len(ret.morphed) + Len(ret.removed) = Len(call.source)
        /\ ret.added =
              SelectSeq(call.target,
                        LAMBDA word :
                            /\ \A k \in 1..Len(ret.kept) :
                                  lowerCased(ret.kept[k].text) # lowerCased(word.text)
                            /\ \A k \in 1..Len(ret.morphed) :
                                  lowerCased(ret.morphed[k].to.text) # lowerCased(word.text))

\* "abc" against "abcde": a similarity of exactly 0.6, morphed, and nothing added
C38_MorphedAtThreshold ==
    /\ call # NoCall
    /\ call.fn = "analyzeDetailedDifference"
    /\ call.source = <<[text |-> <<"a", "b", "c">>]>>
    /\ call.target = <<[text |-> <<"a", "b", "c", "d", "e">>]>>
    /\ Len(ret.morphed) = 1
    /\ ret.morphed[1].similarity.num * 10 = 6 * ret.morphed[1].similarity.den
    /\ ret.added = <<>>

====
